---- MODULE Spec2Model ----
(***************************************************************************)
(* Exam supervision schedule: the assignment engines of the repository.    *)
(*   distribute_invigilators       src/logic.py                            *)
(*   assign_supervisors_smart_v2   src/app_with_sections.py                *)
(*   assign_supervisors_auto       src/app_final.py                        *)
(* A run is a state machine: the tables handed to the engine are the       *)
(* initial state, and each loop iteration of the code is one step.         *)
(***************************************************************************)
EXTENDS Integers, Sequences, FiniteSets, TLC

VARIABLES
    engine,            \* which engine this run executes
    pc,                \* position of the run in the engine's code
    teachers_df,       \* the caller's teacher table
    exams_in,          \* the caller's exam table (logic) or exam schedule file (v2, auto)
    sections_df,       \* smart_v2: the caller's section table, or None
    selected_level,    \* distribute_invigilators: level filter, or None
    exams_df,          \* the exam table the loop runs over
    pos,               \* position of the for loop in exams_df (1-based)
    eligible,          \* distribute_invigilators: ranked list for the exam
    i,                 \* distribute_invigilators: slot index of the inner loop
    assigned_count,    \* distribute_invigilators: rows appended for the exam
    assignments,       \* distribute_invigilators: assignment rows
    warnings_list,     \* distribute_invigilators: warning rows
    row_exam,          \* history: for each assignment row, the exam idx it was made for
    warn_exam,         \* history: for each warning row, the exam idx it was made for
    teacher_daily_count,   \* smart_v2: defaultdict keyed by <<teacher, date_str>>
    teacher_total_count,   \* smart_v2: defaultdict keyed by teacher
    section_daily_count,   \* smart_v2: defaultdict keyed by <<section, date_str>>
    section_total_count,   \* smart_v2: defaultdict keyed by section
    teacher_assignments,   \* auto: defaultdict keyed by <<date, teacher>>
    run,               \* 1 for the first run on the tables, 2 for the run repeated
    first_result,      \* history: what the first run returned
    teacher_columns,   \* main: the columns of the teacher file
    exam_columns,      \* main: the columns of the exam file
    validation,        \* app_v2 main: (is_valid, error_msg), or None
    shown,             \* main: the texts of st.error and st.write, in order
    fn,                \* a function called on its own: its name, or None
    args,              \* the arguments of the call
    result,            \* what the call returned, or None before it returns
    session_state,     \* app.py: st.session_state, the kept results by level
    displayed          \* app.py: the (assignments, warnings) on the page, or None

inputs == <<engine, teachers_df, exams_in, sections_df, selected_level>>

logicVars == <<eligible, i, assigned_count, assignments, warnings_list, row_exam, warn_exam>>

v2Vars == <<teacher_daily_count, teacher_total_count, section_daily_count,
            section_total_count>>

fileVars == <<teacher_columns, exam_columns, validation, shown>>

callVars == <<fn, args, result>>

sessionVars == <<session_state, displayed>>

vars == <<inputs, pc, exams_df, pos, logicVars, v2Vars, teacher_assignments,
          run, first_result, fileVars, callVars, sessionVars>>

-----------------------------------------------------------------------------
(* Bounds of the model.                                                    *)

MaxTeachers == 2
MaxExams == 2
MaxRows == 3

-----------------------------------------------------------------------------
(* Python values.  A str is kept in the state as a TLA+ string; the string *)
(* operations of the code work on its characters (Chars).  None is the     *)
(* empty tuple (NoneStr where the other values are strings), a             *)
(* datetime.time is <<hour, minute>>, a Timestamp at                       *)
(* midnight is <<year, month, day>>: tuples compare as the Python values.  *)
(* The Arabic words of the schedule files are written in Latin letters,    *)
(* letter for letter where the code matches substrings: awwal (first),     *)
(* thani (second), thalith (third), rabi (fourth), and al + word for the   *)
(* form with the article, which contains the bare word as the Arabic does. *)

None == <<>>
NoneStr == "<None>"
NaN == "<NaN>"

\* The characters of each string the tables use.
CharsOf(s) ==
    CASE s = ""           -> <<>>
      [] s = "nan"        -> <<"n", "a", "n">>
      [] s = "A"          -> <<"A">>
      [] s = "B"          -> <<"B">>
      [] s = "C"          -> <<"C">>
      [] s = "Math"       -> <<"M", "a", "t", "h">>
      [] s = "math"       -> <<"m", "a", "t", "h">>
      [] s = "math "      -> <<"m", "a", "t", "h", " ">>
      [] s = "Arabic"     -> <<"A", "r", "a", "b", "i", "c">>
      [] s = "L1"         -> <<"L", "1">>
      [] s = "L2"         -> <<"L", "2">>
      [] s = "L1 "        -> <<"L", "1", " ">>
      [] s = "08:00"      -> <<"0", "8", ":", "0", "0">>
      [] s = "09:00"      -> <<"0", "9", ":", "0", "0">>
      [] s = "10:00"      -> <<"1", "0", ":", "0", "0">>
      [] s = "11:00"      -> <<"1", "1", ":", "0", "0">>
      [] s = "12:00"      -> <<"1", "2", ":", "0", "0">>
      [] s = "10:30"      -> <<"1", "0", ":", "3", "0">>
      [] s = "12:30"      -> <<"1", "2", ":", "3", "0">>
      [] s = "2025-01-10" -> <<"2", "0", "2", "5", "-", "0", "1", "-", "1", "0">>
      [] s = "2025-01-15" -> <<"2", "0", "2", "5", "-", "0", "1", "-", "1", "5">>
      [] s = "2025-01-15 00:00:00" ->
             <<"2", "0", "2", "5", "-", "0", "1", "-", "1", "5", " ",
               "0", "0", ":", "0", "0", ":", "0", "0">>
      [] s = "Math (A)"   -> <<"M", "a", "t", "h", " ", "(", "A", ")">>
      [] s = "Sun 2025/01/12" ->
             <<"S", "u", "n", " ", "2", "0", "2", "5", "/", "0", "1", "/", "1", "2">>
      [] s = "Mon 2025/1/13" ->
             <<"M", "o", "n", " ", "2", "0", "2", "5", "/", "1", "/", "1", "3">>
      [] s = "2025-01-12" -> <<"2", "0", "2", "5", "-", "0", "1", "-", "1", "2">>
      [] s = "2025-01-13" -> <<"2", "0", "2", "5", "-", "0", "1", "-", "1", "3">>
      [] s = "alawwal"    -> <<"a", "l", "a", "w", "w", "a", "l">>
      [] s = "althani"    -> <<"a", "l", "t", "h", "a", "n", "i">>
      [] s = "awwal"      -> <<"a", "w", "w", "a", "l">>
      [] s = "thani"      -> <<"t", "h", "a", "n", "i">>
      [] s = "awwal1"     -> <<"a", "w", "w", "a", "l", "1">>
      [] s = "thani1"     -> <<"t", "h", "a", "n", "i", "1">>
      [] s = "thani2"     -> <<"t", "h", "a", "n", "i", "2">>
      [] s = "unknown"    -> <<"u", "n", "k", "n", "o", "w", "n">>
      [] s = "24:00" -> <<"2", "4", ":", "0", "0">>
      [] s = "08:60" -> <<"0", "8", ":", "6", "0">>
      [] s = "0800" -> <<"0", "8", "0", "0">>
      [] s = "8:5" -> <<"8", ":", "5">>
      [] s = " 08:00 " -> <<" ", "0", "8", ":", "0", "0", " ">>
      [] s = "08:00:00" -> <<"0", "8", ":", "0", "0", ":", "0", "0">>
      [] s = "different specialty" -> <<"d", "i", "f", "f", "e", "r", "e", "n", "t", " ", "s", "p", "e", "c", "i", "a", "l", "t", "y">>
      [] s = "same specialty" -> <<"s", "a", "m", "e", " ", "s", "p", "e", "c", "i", "a", "l", "t", "y">>
      [] s = "exam_date" -> <<"e", "x", "a", "m", "_", "d", "a", "t", "e">>
      [] s = "start_time" -> <<"s", "t", "a", "r", "t", "_", "t", "i", "m", "e">>
      [] s = "end_time" -> <<"e", "n", "d", "_", "t", "i", "m", "e">>
      [] s = "subject" -> <<"s", "u", "b", "j", "e", "c", "t">>
      [] s = "level" -> <<"l", "e", "v", "e", "l">>
      [] s = "section" -> <<"s", "e", "c", "t", "i", "o", "n">>
      [] s = "invigilators_needed" -> <<"i", "n", "v", "i", "g", "i", "l", "a", "t", "o", "r", "s", "_", "n", "e", "e", "d", "e", "d">>
      [] s = "grade" -> <<"g", "r", "a", "d", "e">>
      [] s = "teacher_name" -> <<"t", "e", "a", "c", "h", "e", "r", "_", "n", "a", "m", "e">>
      [] s = "specialty" -> <<"s", "p", "e", "c", "i", "a", "l", "t", "y">>
      [] s = "max_per_day" -> <<"m", "a", "x", "_", "p", "e", "r", "_", "d", "a", "y">>
      [] s = ", " -> <<",", " ">>
      [] s = "missing columns: " -> <<"m", "i", "s", "s", "i", "n", "g", " ", "c", "o", "l", "u", "m", "n", "s", ":", " ">>
      [] s = "need column 'grade' or 'level'" -> <<"n", "e", "e", "d", " ", "c", "o", "l", "u", "m", "n", " ", "'", "g", "r", "a", "d", "e", "'", " ", "o", "r", " ", "'", "l", "e", "v", "e", "l", "'">>
      [] s = "missing columns in the files:" -> <<"m", "i", "s", "s", "i", "n", "g", " ", "c", "o", "l", "u", "m", "n", "s", " ", "i", "n", " ", "t", "h", "e", " ", "f", "i", "l", "e", "s", ":">>
      [] s = "teachers file: " -> <<"t", "e", "a", "c", "h", "e", "r", "s", " ", "f", "i", "l", "e", ":", " ">>
      [] s = "exams file: " -> <<"e", "x", "a", "m", "s", " ", "f", "i", "l", "e", ":", " ">>
      [] s = "error: " -> <<"e", "r", "r", "o", "r", ":", " ">>
      [] s = "no levels in the exams file" -> <<"n", "o", " ", "l", "e", "v", "e", "l", "s", " ", "i", "n", " ", "t", "h", "e", " ", "e", "x", "a", "m", "s", " ", "f", "i", "l", "e">>

StringPool ==
    {"", "nan", "A", "B", "C", "Math", "math", "math ", "Arabic", "L1", "L2", "L1 ",
     "08:00", "09:00", "10:00", "11:00", "12:00", "10:30", "12:30",
     "2025-01-10", "2025-01-15", "2025-01-15 00:00:00",
     "Math (A)", "Sun 2025/01/12", "Mon 2025/1/13", "2025-01-12", "2025-01-13",
     "alawwal", "althani", "awwal", "thani", "awwal1", "thani1", "thani2", "unknown",
     "24:00", "08:60", "0800", "8:5", " 08:00 ", "08:00:00", "different specialty", "same specialty",
     "exam_date",
     "start_time",
     "end_time",
     "subject",
     "level",
     "section",
     "invigilators_needed",
     "grade",
     "teacher_name",
     "specialty",
     "max_per_day",
     ", ",
     "missing columns: ",
     "need column 'grade' or 'level'",
     "missing columns in the files:",
     "teachers file: ",
     "exams file: ",
     "error: ",
     "no levels in the exams file"}

CharsTable == [s \in StringPool |-> CharsOf(s)]

Chars(s) == CharsTable[s]

StrTable == [cs \in {CharsTable[s] : s \in StringPool} |->
                CHOOSE s \in StringPool : CharsTable[s] = cs]

\* The str whose characters are cs.
Str(cs) == StrTable[cs]

\* str(x) of a table cell: a str is itself, a missing cell (float NaN) is 'nan'.
PyStr(x) == IF x = NaN THEN "nan" ELSE x

\* pd.isna
IsNa(x) == x = NaN

RECURSIVE LStrip(_)
LStrip(cs) == IF cs # <<>> /\ Head(cs) = " " THEN LStrip(Tail(cs)) ELSE cs

RECURSIVE RStrip(_)
RStrip(cs) ==
    IF cs # <<>> /\ cs[Len(cs)] = " " THEN RStrip(SubSeq(cs, 1, Len(cs) - 1)) ELSE cs

\* str.strip()
Strip(cs) == RStrip(LStrip(cs))

LowerChar(c) ==
    CASE c = "A" -> "a"
      [] c = "B" -> "b"
      [] c = "C" -> "c"
      [] c = "L" -> "l"
      [] c = "M" -> "m"
      [] OTHER -> c

\* str.lower()
Lower(cs) == [k \in DOMAIN cs |-> LowerChar(cs[k])]

\* needle in hay
Contains(needle, hay) ==
    \E k \in 0..(Len(hay) - Len(needle)) : SubSeq(hay, k + 1, k + Len(needle)) = needle

Digits == {"0", "1", "2", "3", "4", "5", "6", "7", "8", "9"}

DigitVal(c) ==
    CASE c = "0" -> 0 [] c = "1" -> 1 [] c = "2" -> 2 [] c = "3" -> 3 [] c = "4" -> 4
      [] c = "5" -> 5 [] c = "6" -> 6 [] c = "7" -> 7 [] c = "8" -> 8 [] c = "9" -> 9

DigitChar(n) ==
    CASE n = 0 -> "0" [] n = 1 -> "1" [] n = 2 -> "2" [] n = 3 -> "3" [] n = 4 -> "4"
      [] n = 5 -> "5" [] n = 6 -> "6" [] n = 7 -> "7" [] n = 8 -> "8" [] n = 9 -> "9"

RECURSIVE IntOf(_)
IntOf(cs) == IF cs = <<>> THEN 0 ELSE 10 * IntOf(SubSeq(cs, 1, Len(cs) - 1)) + DigitVal(cs[Len(cs)])

AllDigits(cs) == cs # <<>> /\ \A k \in DOMAIN cs : cs[k] \in Digits

\* Code point order of the characters the names use.
Ord(c) ==
    CASE c = " " -> 32 [] c = "A" -> 65 [] c = "B" -> 66 [] c = "C" -> 67 [] OTHER -> 128

\* Tuples of integers, compared as Python compares tuples.
RECURSIVE TupleLess(_, _)
TupleLess(a, b) ==
    IF a = <<>> THEN b # <<>>
    ELSE IF b = <<>> THEN FALSE
    ELSE IF Head(a) # Head(b) THEN Head(a) < Head(b)
    ELSE TupleLess(Tail(a), Tail(b))

\* str < str
StrLess(s, t) == TupleLess([k \in DOMAIN Chars(s) |-> Ord(Chars(s)[k])],
                           [k \in DOMAIN Chars(t) |-> Ord(Chars(t)[k])])

Min(a, b) == IF a < b THEN a ELSE b

-----------------------------------------------------------------------------
(* src/logic.py                                                            *)

\* parse_time: None for a missing value or a string not in %H:%M form.
ParseTime(time_str) ==
    IF IsNa(time_str) THEN None
    ELSE LET cs == Strip(Chars(PyStr(time_str)))
             colon == {k \in DOMAIN cs : cs[k] = ":"}
         IN  IF Cardinality(colon) # 1 THEN None
             ELSE LET k == CHOOSE c \in colon : TRUE
                      hh == SubSeq(cs, 1, k - 1)
                      mm == SubSeq(cs, k + 1, Len(cs))
                  IN  IF /\ AllDigits(hh) /\ Len(hh) <= 2
                         /\ AllDigits(mm) /\ Len(mm) <= 2
                         /\ IntOf(hh) < 24 /\ IntOf(mm) < 60
                      THEN <<IntOf(hh), IntOf(mm)>>
                      ELSE None

\* A conflict test that sees two slots as overlapping only when they start together.
SameStartConflict(exam1_start, exam1_end, exam2_start, exam2_end) ==
    exam1_start # None /\ exam1_start = exam2_start

\* A conflict test that counts slots that only touch as overlapping.
ConflictWhenTouching(exam1_start, exam1_end, exam2_start, exam2_end) ==
    /\ \A t \in {exam1_start, exam1_end, exam2_start, exam2_end} : t # None
    /\ ~ TupleLess(exam1_end, exam2_start)
    /\ ~ TupleLess(exam2_end, exam1_start)

\* check_time_conflict
CheckTimeConflict(exam1_start, exam1_end, exam2_start, exam2_end) ==
    IF \E t \in {exam1_start, exam1_end, exam2_start, exam2_end} : t = None
    THEN FALSE
    ELSE ~ (\/ ~ TupleLess(exam2_start, exam1_end)
            \/ ~ TupleLess(exam1_start, exam2_end))

\* Whether pd.to_datetime reads the cell as a date: 'YYYY-MM-DD'.  It raises on
\* any other text of the tables.
DateParses(date_str) ==
    LET cs == Chars(date_str)
    IN  /\ Len(cs) = 10
        /\ AllDigits(SubSeq(cs, 1, 4)) /\ cs[5] = "-"
        /\ AllDigits(SubSeq(cs, 6, 7)) /\ cs[8] = "-"
        /\ AllDigits(SubSeq(cs, 9, 10))

\* pd.to_datetime of a 'YYYY-MM-DD' cell: the Timestamp <<year, month, day>>.
ToDatetime(date_str) ==
    LET cs == Chars(date_str)
    IN  <<IntOf(SubSeq(cs, 1, 4)), IntOf(SubSeq(cs, 6, 7)), IntOf(SubSeq(cs, 9, 10))>>

TwoDigits(n) == <<DigitChar(n \div 10), DigitChar(n % 10)>>

FourDigits(n) == TwoDigits(n \div 100) \o TwoDigits(n % 100)

\* str(Timestamp) of a date at midnight: 'YYYY-MM-DD 00:00:00'.
TimestampStr(ts) ==
    FourDigits(ts[1]) \o <<"-">> \o TwoDigits(ts[2]) \o <<"-">> \o TwoDigits(ts[3])
        \o <<" ">> \o TwoDigits(0) \o <<":">> \o TwoDigits(0) \o <<":">> \o TwoDigits(0)

\* calculate_teacher_load
CalculateTeacherLoad(asg, teacher_name) ==
    Cardinality({k \in DOMAIN asg : asg[k].teacher_name = teacher_name})

\* calculate_daily_load
CalculateDailyLoad(asg, teacher_name, exam_date) ==
    Cardinality({k \in DOMAIN asg :
                    asg[k].teacher_name = teacher_name /\ asg[k].exam_date = exam_date})

\* is_teacher_available: the unavailable test of lines 49-53.
UnavailableOn(teacher, exam_date) ==
    LET unavailable == Strip(Chars(PyStr(teacher.unavailable)))
    IN  /\ unavailable # <<>>
        /\ unavailable # Chars("nan")
        /\ Contains(TimestampStr(exam_date), unavailable)

\* is_teacher_available: the conflict loop of lines 56-62.
HasTimeConflict(teacher, exam_date, start_time, end_time, asg) ==
    \E k \in DOMAIN asg :
        /\ asg[k].teacher_name = teacher.teacher_name
        /\ asg[k].exam_date = exam_date
        /\ CheckTimeConflict(start_time, end_time, asg[k].start_time, asg[k].end_time)

\* is_teacher_available
IsTeacherAvailable(teacher, exam_date, start_time, end_time, asg) ==
    /\ ~ UnavailableOn(teacher, exam_date)
    /\ ~ HasTimeConflict(teacher, exam_date, start_time, end_time, asg)

\* The stable ascending order of keys[1..n], as a sequence of positions
\* (list.sort and DataFrame.sort_values on several columns are stable).
RECURSIVE StableOrder(_, _)
StableOrder(keys, n) ==
    IF n = 0 THEN <<>>
    ELSE LET prev == StableOrder(keys, n - 1)
             p == Cardinality({k \in DOMAIN prev : ~ TupleLess(keys[n], keys[prev[k]])})
         IN  SubSeq(prev, 1, p) \o <<n>> \o SubSeq(prev, p + 1, Len(prev))

SortByKeys(seq, keys) ==
    LET order == StableOrder(keys, Len(seq))
    IN  [k \in DOMAIN seq |-> seq[order[k]]]

SelectSeqIdx(seq, keep) ==
    LET F[k \in 0..Len(seq)] ==
            IF k = 0 THEN <<>>
            ELSE IF k \in keep THEN Append(F[k - 1], seq[k]) ELSE F[k - 1]
    IN  F[Len(seq)]

\* The filter with max_daily_limit=False: lines 87-90 are skipped.
PassesFilterNoDailyLimit(teacher, exam_date, start_time, end_time, asg) ==
    IsTeacherAvailable(teacher, exam_date, start_time, end_time, asg)

\* get_eligible_teachers: the filter of lines 82-90.
PassesFilter(teacher, exam_date, start_time, end_time, asg) ==
    /\ IsTeacherAvailable(teacher, exam_date, start_time, end_time, asg)
    /\ ~ (CalculateDailyLoad(asg, teacher.teacher_name, exam_date) >= teacher.max_per_day)

\* get_eligible_teachers: the entry of lines 92-102.
EligibleEntry(teacher, exam_subject, exam_date, asg) ==
    LET specialty == Strip(Chars(PyStr(teacher.specialty)))
    IN  [teacher_name |-> teacher.teacher_name,
         specialty |-> Str(specialty),
         is_different_specialty |-> Lower(specialty) # Lower(Chars(exam_subject)),
         total_load |-> CalculateTeacherLoad(asg, teacher.teacher_name),
         daily_load |-> CalculateDailyLoad(asg, teacher.teacher_name, exam_date)]

\* A sort key without the specialty: load, then name.
EligibleKeyLoadFirst(x) ==
    <<x.total_load>>
        \o [k \in DOMAIN Chars(x.teacher_name) |-> Ord(Chars(x.teacher_name)[k])]

\* A sort key without the name: equal specialty and load keep the table order.
EligibleKeyNoName(x) ==
    <<IF ~ x.is_different_specialty THEN 1 ELSE 0, x.total_load>>

\* get_eligible_teachers: the sort key of lines 105-109.
EligibleKey(x) ==
    <<IF ~ x.is_different_specialty THEN 1 ELSE 0, x.total_load>>
        \o [k \in DOMAIN Chars(x.teacher_name) |-> Ord(Chars(x.teacher_name)[k])]

\* get_eligible_teachers
GetEligibleTeachers(tdf, exam_subject, exam_date, start_time, end_time, asg) ==
    LET keep == {k \in DOMAIN tdf : PassesFilter(tdf[k], exam_date, start_time, end_time, asg)}
        kept == SelectSeqIdx(tdf, keep)
        unsorted == [k \in DOMAIN kept |-> EligibleEntry(kept[k], exam_subject, exam_date, asg)]
    IN  SortByKeys(unsorted, [k \in DOMAIN unsorted |-> EligibleKey(unsorted[k])])

\* distribute_invigilators: the level filter of lines 144-145.
FilterLevel(edf, level) ==
    IF level = NoneStr \/ level = "" THEN edf
    ELSE SelectSeqIdx(edf, {k \in DOMAIN edf :
                               Strip(Chars(edf[k].level)) = Strip(Chars(level))})

\* distribute_invigilators: the column conversions of lines 147-149.
ParseExam(e) ==
    [e EXCEPT !.exam_date = ToDatetime(e.exam_date),
              !.start_time = ParseTime(e.start_time),
              !.end_time = ParseTime(e.end_time)]

\* A sort on the date alone: sort_values(['exam_date']).
ExamSortKeyDateOnly(e) == e.exam_date

\* distribute_invigilators: sort_values(['exam_date', 'start_time']), missing last.
ExamSortKey(e) ==
    e.exam_date \o (IF e.start_time = None THEN <<1>> ELSE <<0>> \o e.start_time)

\* distribute_invigilators: lines 141-150, the working table of the loop.  Each row
\* keeps its index label idx, the row's position in the caller's table.
PrepareExams(edf, level) ==
    LET labelled == [k \in DOMAIN edf |->
                        [idx |-> k, exam_date |-> edf[k].exam_date,
                         start_time |-> edf[k].start_time, end_time |-> edf[k].end_time,
                         subject |-> edf[k].subject, level |-> edf[k].level,
                         invigilators_needed |-> edf[k].invigilators_needed]]
        filtered == FilterLevel(labelled, level)
        parsed == [k \in DOMAIN filtered |-> ParseExam(filtered[k])]
    IN  SortByKeys(parsed, [k \in DOMAIN parsed |-> ExamSortKey(parsed[k])])

\* distribute_invigilators: the row of lines 170-180.
AssignmentRow(exam, teacher) ==
    [exam_date |-> exam.exam_date,
     start_time |-> exam.start_time,
     end_time |-> exam.end_time,
     subject |-> Str(Strip(Chars(PyStr(exam.subject)))),
     level |-> Str(Strip(Chars(PyStr(exam.level)))),
     teacher_name |-> teacher.teacher_name,
     specialty |-> teacher.specialty,
     notes |-> IF teacher.is_different_specialty THEN "different specialty" ELSE "same specialty"]

\* distribute_invigilators: the row of lines 184-190; the message is kept as the
\* two numbers it prints (required, filled).
WarningRow(exam, needed, count) ==
    [exam_date |-> exam.exam_date,
     time |-> IF exam.start_time # None /\ exam.end_time # None
              THEN <<exam.start_time, exam.end_time>> ELSE <<"N/A">>,
     subject |-> Str(Strip(Chars(PyStr(exam.subject)))),
     level |-> Str(Strip(Chars(PyStr(exam.level)))),
     required |-> needed,
     filled |-> count]

-----------------------------------------------------------------------------
(* src/app_with_sections.py and src/app_final.py                           *)

\* The daily limit both engines write as the literal 3.
DailyCap == 3

\* The character of cs at position k, "" past either end.
At(cs, k) == IF k \in DOMAIN cs THEN cs[k] ELSE ""

StartsWith(cs, prefix) == Len(prefix) <= Len(cs) /\ SubSeq(cs, 1, Len(prefix)) = prefix

\* str.replace(old, new), old not empty.
RECURSIVE Replace(_, _, _)
Replace(cs, old, new) ==
    IF cs = <<>> THEN <<>>
    ELSE IF StartsWith(cs, old)
         THEN new \o Replace(SubSeq(cs, Len(old) + 1, Len(cs)), old, new)
         ELSE <<Head(cs)>> \o Replace(Tail(cs), old, new)

\* re.sub(r'\([^)]*\)', '', s)
RECURSIVE RemoveParens(_)
RemoveParens(cs) ==
    LET opens == {p \in DOMAIN cs : cs[p] = "(" /\ \E q \in DOMAIN cs : q > p /\ cs[q] = ")"}
    IN  IF opens = {} THEN cs
        ELSE LET p == CHOOSE x \in opens : \A y \in opens : x <= y
                 closes == {q \in DOMAIN cs : q > p /\ cs[q] = ")"}
                 q == CHOOSE x \in closes : \A y \in closes : x <= y
             IN  SubSeq(cs, 1, p - 1) \o RemoveParens(SubSeq(cs, q + 1, Len(cs)))

\* normalize_subject_name
NormalizeSubjectName(subject_str) == Str(Strip(RemoveParens(Strip(Chars(PyStr(subject_str))))))

GradeWords == <<Chars("awwal"), Chars("thani"),
                <<"t", "h", "a", "l", "i", "t", "h">>, <<"r", "a", "b", "i">>>>

Article == <<"a", "l">>

\* normalize_grade_name: the four replacements of the mapping, in its order.
RECURSIVE ReplaceGrades(_, _)
ReplaceGrades(cs, k) ==
    IF k > Len(GradeWords) THEN cs
    ELSE ReplaceGrades(Replace(cs, Article \o GradeWords[k], GradeWords[k]), k + 1)

NormalizeGradeName(grade_str) == Str(ReplaceGrades(Strip(Chars(PyStr(grade_str))), 1))

\* re.search(r'(\d{4})/(\d{1,2})/(\d{1,2})', s) at position k: the groups, or None.
DateMatchAt(cs, k) ==
    LET monthLen == IF At(cs, k + 6) \in Digits THEN 2 ELSE 1
        d0 == k + 5 + monthLen + 1
        dayLen == IF At(cs, d0 + 1) \in Digits THEN 2 ELSE 1
    IN  IF /\ \A j \in k..(k + 3) : At(cs, j) \in Digits
           /\ At(cs, k + 4) = "/"
           /\ At(cs, k + 5) \in Digits
           /\ At(cs, k + 5 + monthLen) = "/"
           /\ At(cs, d0) \in Digits
        THEN <<IntOf(SubSeq(cs, k, k + 3)), IntOf(SubSeq(cs, k + 5, k + 4 + monthLen)),
               IntOf(SubSeq(cs, d0, d0 + dayLen - 1))>>
        ELSE None

DateSearch(cs) ==
    LET hits == {k \in DOMAIN cs : DateMatchAt(cs, k) # None}
    IN  IF hits = {} THEN None
        ELSE DateMatchAt(cs, CHOOSE k \in hits : \A j \in hits : k <= j)

\* parse_date_arabic (app_with_sections.py): None for a missing cell.
ParseDateArabic(date_str) ==
    IF IsNa(date_str) THEN None ELSE DateSearch(Chars(PyStr(date_str)))

\* date.strftime('%Y-%m-%d')
DateStr(date) ==
    Str(FourDigits(date[1]) \o <<"-">> \o TwoDigits(date[2]) \o <<"-">> \o TwoDigits(date[3]))

\* The two sessions of a schedule file row: column, start_time, end_time.
SessionColumns == <<[column |-> "s2", session |-> "session 2",
                     start_time |-> "08:00", end_time |-> "10:00"],
                    [column |-> "s34", session |-> "sessions 3 and 4",
                     start_time |-> "10:30", end_time |-> "12:30"]>>

\* The cell that says a session has no exam, and the word smart_v2 looks for in it.
NoExamCell == "la yujad ikhtibar"
NoExamWord == <<"y", "u", "j", "a", "d">>

CellOf(row, column) == IF column = "s2" THEN row.s2 ELSE row.s34

\* parse_exam_schedule (app_with_sections.py): the exam of one session cell.
ParsedExamV2(date, level, sc, subject) ==
    [date |-> date, session |-> sc.session,
     start_time |-> sc.start_time, end_time |-> sc.end_time,
     subject |-> subject, subject_normalized |-> NormalizeSubjectName(subject),
     level |-> level, grade |-> level, section |-> "",
     supervisor1 |-> "", supervisor2 |-> ""]

\* parse_exam_schedule (app_with_sections.py): the exams of one file row.
RowExamsV2(row) ==
    LET date == ParseDateArabic(row.date_cell)
        level == NormalizeGradeName(Str(Strip(Chars(PyStr(row.level_cell)))))
        Has(column) ==
            /\ ~ IsNa(CellOf(row, column))
            /\ Strip(Chars(PyStr(CellOf(row, column)))) # <<>>
            /\ ~ Contains(NoExamWord, Strip(Chars(PyStr(CellOf(row, column)))))
        One(k) ==
            IF Has(SessionColumns[k].column)
            THEN <<ParsedExamV2(date, level, SessionColumns[k],
                                Str(Strip(Chars(PyStr(CellOf(row, SessionColumns[k].column))))))>>
            ELSE <<>>
    IN  IF date = None THEN <<>> ELSE One(1) \o One(2)

\* pd.DataFrame(rows): the rows labelled 1, 2, ... (a RangeIndex).
Labelled(rows) == [k \in DOMAIN rows |-> [idx |-> k, row |-> rows[k]]]

RECURSIVE FlatMap(_, _)
FlatMap(seq, k) == IF k > Len(seq) THEN <<>> ELSE seq[k] \o FlatMap(seq, k + 1)

\* parse_exam_schedule (app_with_sections.py)
ParseExamScheduleV2(file) == Labelled(FlatMap([k \in DOMAIN file |-> RowExamsV2(file[k])], 1))

\* .str.extract(r'(awwal|thani|thalith|rabi)')[0]: the first match, NaN without one.
ExtractGrade(section_name) ==
    LET cs == Chars(section_name)
        hits == {k \in DOMAIN cs :
                    \E w \in DOMAIN GradeWords : StartsWith(SubSeq(cs, k, Len(cs)), GradeWords[w])}
    IN  IF hits = {} THEN NaN
        ELSE LET k == CHOOSE x \in hits : \A y \in hits : x <= y
                 ws == {w \in DOMAIN GradeWords :
                           StartsWith(SubSeq(cs, k, Len(cs)), GradeWords[w])}
             IN  Str(GradeWords[CHOOSE w \in ws : \A v \in ws : w <= v])

\* The rows of one exam row with the matching sections taken last to first.
ExpandOneLastFirst(lrow, sdf) ==
    LET matching_sections ==
            SelectSeqIdx(sdf, {k \in DOMAIN sdf : ExtractGrade(sdf[k]) = lrow.row.grade})
        n == Len(matching_sections)
    IN  IF matching_sections # <<>>
        THEN [k \in DOMAIN matching_sections |->
                 [idx |-> lrow.idx,
                  row |-> [lrow.row EXCEPT !.section = matching_sections[n + 1 - k]]]]
        ELSE <<lrow>>

\* The rows of one exam row when an exam without a matching section is dropped.
ExpandOneDropUnmatched(lrow, sdf) ==
    LET matching_sections ==
            SelectSeqIdx(sdf, {k \in DOMAIN sdf : ExtractGrade(sdf[k]) = lrow.row.grade})
    IN  [k \in DOMAIN matching_sections |->
            [idx |-> lrow.idx, row |-> [lrow.row EXCEPT !.section = matching_sections[k]]]]

\* expand_exams_by_sections: the rows one exam row becomes.  A copy keeps the
\* index label of the row it was copied from.
ExpandOne(lrow, sdf) ==
    LET matching_sections ==
            SelectSeqIdx(sdf, {k \in DOMAIN sdf : ExtractGrade(sdf[k]) = lrow.row.grade})
    IN  IF matching_sections # <<>>
        THEN [k \in DOMAIN matching_sections |->
                 [idx |-> lrow.idx, row |-> [lrow.row EXCEPT !.section = matching_sections[k]]]]
        ELSE <<lrow>>

\* expand_exams_by_sections
ExpandExamsBySections(edf, sdf) ==
    IF sdf = None \/ Len(sdf) = 0 THEN edf
    ELSE FlatMap([k \in DOMAIN edf |-> ExpandOne(edf[k], sdf)], 1)

\* A defaultdict(int): a function whose missing keys read as 0.
Get(d, key) == IF key \in DOMAIN d THEN d[key] ELSE 0

Incr(d, key) == [k \in DOMAIN d \cup {key} |-> IF k = key THEN Get(d, key) + 1 ELSE Get(d, k)]

\* Reading d[key] for every key of keys creates the missing entries.
Touch(d, keys) == [k \in DOMAIN d \cup keys |-> Get(d, k)]

Range(seq) == {seq[k] : k \in DOMAIN seq}

\* exams_df.at[idx, column] = value: every row labelled idx is written.
SetSupervisor1(edf, idx, value) ==
    [k \in DOMAIN edf |->
        IF edf[k].idx = idx THEN [edf[k] EXCEPT !.row.supervisor1 = value] ELSE edf[k]]

SetSupervisor2(edf, idx, value) ==
    [k \in DOMAIN edf |->
        IF edf[k].idx = idx THEN [edf[k] EXCEPT !.row.supervisor2 = value] ELSE edf[k]]

\* assign_supervisors_smart_v2, lines 203-207: teacher_specialty, the dict of
\* zip(names, normalized specialties); a later row of a name replaces an earlier one.
TeacherSpecialty(tdf, t) ==
    LET rows == {k \in DOMAIN tdf : tdf[k].teacher_name = t}
    IN  IF rows = {} THEN ""
        ELSE NormalizeSubjectName(tdf[CHOOSE k \in rows : \A j \in rows : j <= k].specialty)

TeachersList(tdf) == [k \in DOMAIN tdf |-> tdf[k].teacher_name]

\* The list of lines 229-233 without the specialty test of line 232.
AvailableTeachersAnySpecialty(tdf, daily, date_str, subject_normalized, skip) ==
    LET teachers_list == TeachersList(tdf)
    IN  SelectSeqIdx(teachers_list,
            {k \in DOMAIN teachers_list :
                /\ teachers_list[k] # skip
                /\ Get(daily, <<teachers_list[k], date_str>>) < DailyCap})

\* assign_supervisors_smart_v2, lines 229-233 and 248-253: the teachers under the
\* daily limit whose specialty is not the exam's subject, without the teacher skip.
AvailableTeachersV2(tdf, daily, date_str, subject_normalized, skip) ==
    LET teachers_list == TeachersList(tdf)
    IN  SelectSeqIdx(teachers_list,
            {k \in DOMAIN teachers_list :
                /\ teachers_list[k] # skip
                /\ Get(daily, <<teachers_list[k], date_str>>) < DailyCap
                /\ Strip(Chars(TeacherSpecialty(tdf, teachers_list[k])))
                       # Strip(Chars(subject_normalized))})

\* available_teachers.sort(key=lambda t: teacher_total_count[t])
SortByTotal(names, total) == SortByKeys(names, [k \in DOMAIN names |-> <<Get(total, names[k])>>])

\* parse_date_arabic (app_final.py): no test for a missing cell; date_str is a str.
ParseDateArabicAuto(date_str) == DateSearch(Chars(date_str))

\* parse_exam_schedule (app_final.py): the exams of one file row.
RowExamsAuto(row) ==
    LET date == ParseDateArabicAuto(row.date_cell)
        Has(column) == ~ IsNa(CellOf(row, column)) /\ CellOf(row, column) # NoExamCell
        One(k) ==
            IF Has(SessionColumns[k].column)
            THEN <<[date |-> date, session |-> SessionColumns[k].session,
                    start_time |-> SessionColumns[k].start_time,
                    end_time |-> SessionColumns[k].end_time,
                    subject |-> CellOf(row, SessionColumns[k].column),
                    level |-> row.level_cell, grade |-> row.level_cell, section |-> "",
                    supervisor1 |-> "", supervisor2 |-> ""]>>
            ELSE <<>>
    IN  One(1) \o One(2)

\* parse_exam_schedule (app_final.py)
ParseExamScheduleAuto(file) ==
    Labelled(FlatMap([k \in DOMAIN file |-> RowExamsAuto(file[k])], 1))

\* assign_supervisors_auto, lines 98-109: (teacher_name, priority) of the teachers
\* under the daily limit, in table order.
AvailableTeachersAuto(tdf, ta, date, subject) ==
    LET kept == SelectSeqIdx(tdf, {k \in DOMAIN tdf :
                                      Get(ta, <<date, tdf[k].teacher_name>>) < DailyCap})
    IN  [k \in DOMAIN kept |->
            <<kept[k].teacher_name, IF kept[k].specialty # subject THEN 0 ELSE 1>>]

\* assign_supervisors_auto, line 112: sort by (priority, load of the day).
SortAuto(avail, ta, date) ==
    SortByKeys(avail, [k \in DOMAIN avail |-> <<avail[k][2], Get(ta, <<date, avail[k][1]>>)>>])

-----------------------------------------------------------------------------
(* The tables a run can be given.                                          *)

NameOf(k) == CASE k = 1 -> "A" [] k = 2 -> "B" [] k = 3 -> "C" [] OTHER -> "D"

Names == {NameOf(k) : k \in 1..MaxTeachers}

Specialties == {"Math", "Arabic"}

PerDayLimits == {1, 2}

\* The unavailable cell: empty (read as NaN), a date typed as text, a date cell.
UnavailableCells == {NaN, "2025-01-15", "2025-01-15 00:00:00"}

TeacherRows ==
    [teacher_name : Names, specialty : Specialties,
     max_per_day : PerDayLimits, unavailable : UnavailableCells]

SeqsUpTo(S, n) == UNION {[1..m -> S] : m \in 0..n}

UniqueNames(tdf) ==
    \A j, k \in DOMAIN tdf : j # k => tdf[j].teacher_name # tdf[k].teacher_name

TeacherTables == {t \in SeqsUpTo(TeacherRows, MaxTeachers) : UniqueNames(t)}

ExamDates == {"2025-01-10", "2025-01-15"}

\* (start_time, end_time) cells: 08-10 and 09-11 overlap, 08-10 and 10-12 touch.
TimeCells == {<<"08:00", "10:00">>, <<"09:00", "11:00">>, <<"10:00", "12:00">>}

Subjects == {"math "}

Levels == {"L1"}

NeededCounts == {1, 2}

ExamRows ==
    {[exam_date |-> d, start_time |-> t[1], end_time |-> t[2], subject |-> s,
      level |-> l, invigilators_needed |-> n] :
        d \in ExamDates, t \in TimeCells, s \in Subjects, l \in Levels, n \in NeededCounts}

ExamTables == SeqsUpTo(ExamRows, MaxExams)

\* The teacher tables of smart_v2 and auto: name and specialty.
StaffRows == [teacher_name : Names, specialty : Specialties]

StaffTables == {t \in SeqsUpTo(StaffRows, MaxTeachers) : UniqueNames(t)}

\* The rows of an exam schedule file: day and date, level, the two session cells.
ScheduleRows ==
    [date_cell : {"Sun 2025/01/12", "Mon 2025/1/13"}, level_cell : {"alawwal", "althani"},
     s2 : {"Math (A)", "Arabic"}, s34 : {NaN, "Arabic"}]

ScheduleFiles == SeqsUpTo(ScheduleRows, MaxExams)

\* The section tables: no file (None, which both functions treat as the empty table),
\* the sections of the second grade, a section of the first and one of the second.
SectionTables == {<<>>, <<"thani1", "thani2">>, <<"awwal1", "thani1">>}

-----------------------------------------------------------------------------
(* The state before a run.                                                 *)

\* The columns of a table with the given rows.
Columns(rows) == UNION {DOMAIN r : r \in rows}

InitResults ==
    /\ exams_df = <<>>
    /\ pos = 0
    /\ eligible = <<>>
    /\ i = 0
    /\ assigned_count = 0
    /\ assignments = <<>>
    /\ warnings_list = <<>>
    /\ row_exam = <<>>
    /\ warn_exam = <<>>
    /\ teacher_daily_count = <<>>
    /\ teacher_total_count = <<>>
    /\ section_daily_count = <<>>
    /\ section_total_count = <<>>
    /\ teacher_assignments = <<>>
    /\ run = 1
    /\ first_result = <<>>
    /\ validation = None
    /\ shown = <<>>
    /\ session_state = <<>>
    /\ displayed = None

\* No function is called on its own.
NoCall == fn = NoneStr /\ args = None /\ result = None

\* An engine is called; the files have every column of the tables.
InitLocals ==
    /\ pc = "call"
    /\ teacher_columns = Columns(IF engine = "logic" THEN TeacherRows ELSE StaffRows)
    /\ exam_columns = Columns(IF engine = "logic" THEN ExamRows ELSE ScheduleRows)
    /\ InitResults
    /\ NoCall

InitLogic ==
    /\ engine = "logic"
    /\ teachers_df \in TeacherTables
    /\ exams_in \in ExamTables
    /\ sections_df = <<>>
    /\ selected_level \in {NoneStr}
    /\ InitLocals

InitV2 ==
    /\ engine = "v2"
    /\ teachers_df \in StaffTables
    /\ exams_in \in ScheduleFiles
    /\ sections_df \in SectionTables
    /\ selected_level = NoneStr
    /\ InitLocals

InitAuto ==
    /\ engine = "auto"
    /\ teachers_df \in StaffTables
    /\ exams_in \in ScheduleFiles
    /\ sections_df = <<>>
    /\ selected_level = NoneStr
    /\ InitLocals

-----------------------------------------------------------------------------
(* distribute_invigilators (src/logic.py), one step per loop iteration.    *)

\* Lines 141-150 without lines 137-138: the result lists are not emptied, as lists
\* kept across calls would be.
Distribute_PrepareKeepLists ==
    /\ engine = "logic" /\ pc = "call"
    /\ exams_df' = PrepareExams(exams_in, selected_level)
    /\ pos' = 1
    /\ pc' = "loop"
    /\ UNCHANGED <<sessionVars, callVars, fileVars, inputs, logicVars, v2Vars, teacher_assignments, run, first_result>>

\* Lines 137-150: empty result lists, the filtered, parsed and sorted copy.
Distribute_Prepare ==
    /\ engine = "logic" /\ pc = "call"
    /\ assignments' = <<>>
    /\ warnings_list' = <<>>
    /\ row_exam' = <<>>
    /\ warn_exam' = <<>>
    /\ IF \A k \in DOMAIN FilterLevel(exams_in, selected_level) :
              DateParses(FilterLevel(exams_in, selected_level)[k].exam_date)
       THEN /\ exams_df' = PrepareExams(exams_in, selected_level)
            /\ pos' = 1
            /\ pc' = "loop"
       ELSE \* line 147 raises: the call ends without a result
            /\ pc' = "raised"
            /\ UNCHANGED <<exams_df, pos>>
    /\ UNCHANGED <<sessionVars, callVars, fileVars, inputs, eligible, i, assigned_count, v2Vars, teacher_assignments,
                   run, first_result>>

CurrentExam == exams_df[pos]

CurrentSubject == Str(Strip(Chars(PyStr(CurrentExam.subject))))

\* Lines 152-166: the next exam of the sorted table, its eligible list.
Distribute_NextExam ==
    /\ engine = "logic" /\ pc = "loop" /\ pos <= Len(exams_df)
    /\ eligible' = GetEligibleTeachers(teachers_df, CurrentSubject, CurrentExam.exam_date,
                                       CurrentExam.start_time, CurrentExam.end_time,
                                       assignments)
    /\ assigned_count' = 0
    /\ i' = 0
    /\ IF CurrentExam.invigilators_needed > 0
       THEN pc' = "slots" /\ pos' = pos
       ELSE pc' = "loop" /\ pos' = pos + 1
    /\ UNCHANGED <<sessionVars, callVars, fileVars, inputs, exams_df, assignments, warnings_list, row_exam, warn_exam,
                   v2Vars, teacher_assignments, run, first_result>>

\* An inner loop of range(needed + 1).
SlotDoneOneMore ==
    /\ i' = i + 1
    /\ IF i + 1 <= exams_df[pos].invigilators_needed
       THEN pc' = "slots" /\ pos' = pos
       ELSE pc' = "loop" /\ pos' = pos + 1

\* The inner loop moves to the next slot, or the outer loop to the next exam.
SlotDone ==
    /\ i' = i + 1
    /\ IF i + 1 < CurrentExam.invigilators_needed
       THEN pc' = "slots" /\ pos' = pos
       ELSE pc' = "loop" /\ pos' = pos + 1

\* Lines 167-181: slot i goes to the i-th ranked teacher.
Distribute_AssignSlot ==
    /\ engine = "logic" /\ pc = "slots"
    /\ i < Len(eligible)
    /\ assignments' = Append(assignments, AssignmentRow(CurrentExam, eligible[i + 1]))
    /\ row_exam' = Append(row_exam, CurrentExam.idx)
    /\ assigned_count' = assigned_count + 1
    /\ SlotDone
    /\ UNCHANGED <<sessionVars, callVars, fileVars, inputs, exams_df, eligible, warnings_list, warn_exam,
                   v2Vars, teacher_assignments, run, first_result>>

\* A warning that ends the run: the exams after the short one are skipped.
Distribute_WarnSlotAndStop ==
    /\ engine = "logic" /\ pc = "slots"
    /\ ~ (i < Len(eligible))
    /\ warnings_list' = Append(warnings_list,
                               WarningRow(CurrentExam, CurrentExam.invigilators_needed,
                                          assigned_count))
    /\ warn_exam' = Append(warn_exam, CurrentExam.idx)
    /\ i' = i
    /\ pos' = Len(exams_df) + 1
    /\ pc' = "loop"
    /\ UNCHANGED <<sessionVars, callVars, fileVars, inputs, exams_df, eligible, assigned_count, assignments,
                   row_exam, v2Vars, teacher_assignments, run, first_result>>

\* Lines 182-190: no teacher is left for slot i.
Distribute_WarnSlot ==
    /\ engine = "logic" /\ pc = "slots"
    /\ ~ (i < Len(eligible))
    /\ warnings_list' = Append(warnings_list,
                               WarningRow(CurrentExam, CurrentExam.invigilators_needed,
                                          assigned_count))
    /\ warn_exam' = Append(warn_exam, CurrentExam.idx)
    /\ SlotDone
    /\ UNCHANGED <<sessionVars, callVars, fileVars, inputs, exams_df, eligible, assigned_count, assignments, row_exam,
                   v2Vars, teacher_assignments, run, first_result>>

\* Line 192: the loop is over, the two lists are returned.
Distribute_Return ==
    /\ engine = "logic" /\ pc = "loop" /\ pos > Len(exams_df)
    /\ pc' = "done"
    /\ UNCHANGED <<sessionVars, callVars, fileVars, inputs, exams_df, pos, logicVars, v2Vars, teacher_assignments,
                   run, first_result>>

NextLogic ==
    \/ Distribute_Prepare
    \/ Distribute_NextExam
    \/ Distribute_AssignSlot
    \/ Distribute_WarnSlot
    \/ Distribute_Return

Spec == InitLogic /\ [][NextLogic]_vars

-----------------------------------------------------------------------------
(* assign_supervisors_smart_v2 (src/app_with_sections.py) as main calls it: *)
(* the schedule file is parsed, expanded by sections, and handed over.      *)

\* main, line 338: exams_df = parse_exam_schedule(exam_file).
V2_Parse ==
    /\ engine = "v2" /\ pc = "call"
    /\ exams_df' = ParseExamScheduleV2(exams_in)
    /\ pc' = "expand"
    /\ UNCHANGED <<sessionVars, callVars, fileVars, inputs, pos, logicVars, v2Vars, teacher_assignments, run, first_result>>

\* main, line 342: exams_expanded_df = expand_exams_by_sections(exams_df, sections_df).
V2_Expand ==
    /\ engine = "v2" /\ pc = "expand"
    /\ exams_df' = ExpandExamsBySections(exams_df, sections_df)
    /\ pc' = "assign"
    /\ UNCHANGED <<sessionVars, callVars, fileVars, inputs, pos, logicVars, v2Vars, teacher_assignments, run, first_result>>

\* Lines 203-216: the lists and the four counters, empty.
V2_Start ==
    /\ engine = "v2" /\ pc = "assign"
    /\ teacher_daily_count' = <<>>
    /\ teacher_total_count' = <<>>
    /\ section_daily_count' = <<>>
    /\ section_total_count' = <<>>
    /\ pos' = 1
    /\ pc' = "loop"
    /\ UNCHANGED <<sessionVars, callVars, fileVars, inputs, exams_df, logicVars, teacher_assignments, run, first_result>>

\* Lines 238-243: supervisor 1 is the first of the sorted list, if there is one.
\* st is the table and the teacher counters.
TakeSupervisor1(st, idx, date_str, available_teachers) ==
    LET total0 == Touch(st.total, Range(available_teachers))
    IN  IF available_teachers # <<>>
        THEN [edf |-> SetSupervisor1(st.edf, idx, available_teachers[1]),
              daily |-> Incr(st.daily, <<available_teachers[1], date_str>>),
              total |-> Incr(total0, available_teachers[1]),
              supervisor1 |-> available_teachers[1]]
        ELSE [edf |-> st.edf, daily |-> st.daily, total |-> total0, supervisor1 |-> NoneStr]

\* Lines 258-262: supervisor 2 of a first grade exam, likewise.
TakeSupervisor2(st, idx, date_str, available_teachers2) ==
    LET total0 == Touch(st.total, Range(available_teachers2))
    IN  IF available_teachers2 # <<>>
        THEN [edf |-> SetSupervisor2(st.edf, idx, available_teachers2[1]),
              daily |-> Incr(st.daily, <<available_teachers2[1], date_str>>),
              total |-> Incr(total0, available_teachers2[1])]
        ELSE [edf |-> st.edf, daily |-> st.daily, total |-> total0]

\* Lines 228-243: the state after supervisor 1 of the exam row at position p.
AfterSupervisor1(st, tdf, p) ==
    LET exam == st.edf[p].row
        date_str == DateStr(exam.date)
    IN  TakeSupervisor1(st, st.edf[p].idx, date_str,
            SortByTotal(AvailableTeachersV2(tdf, st.daily, date_str,
                                            exam.subject_normalized, NoneStr),
                        st.total))

\* Lines 246-262: the state after supervisor 2 of a first grade exam row.
AfterSupervisor2(st, tdf, p, exam) ==
    LET date_str == DateStr(exam.date)
    IN  TakeSupervisor2(st, st.edf[p].idx, date_str,
            SortByTotal(AvailableTeachersV2(tdf, st.daily, date_str,
                                            exam.subject_normalized, st.supervisor1),
                        st.total))

\* Line 226
IsGradeOne(level) == Contains(Chars("awwal"), Chars(level))

\* Line 265
HasMatchingSection(exam, sections_list) ==
    exam.section # "" /\ exam.section \in Range(sections_list)

\* Lines 219-269: one exam row.  The row read is the one iterrows took before
\* the loop wrote to the table; the loop writes no column it reads.
V2_AssignExam ==
    /\ engine = "v2" /\ pc = "loop" /\ pos <= Len(exams_df)
    /\ \E exam \in {exams_df[pos].row} :
       \E st1 \in {AfterSupervisor1([edf |-> exams_df, daily |-> teacher_daily_count,
                                     total |-> teacher_total_count], teachers_df, pos)} :
           IF IsGradeOne(exam.level)
           THEN \E st2 \in {AfterSupervisor2(st1, teachers_df, pos, exam)} :
                    /\ exams_df' = st2.edf
                    /\ teacher_daily_count' = st2.daily
                    /\ teacher_total_count' = st2.total
                    /\ UNCHANGED <<section_daily_count, section_total_count>>
           ELSE /\ teacher_daily_count' = st1.daily
                /\ teacher_total_count' = st1.total
                /\ IF HasMatchingSection(exam, sections_df)
                   THEN /\ exams_df' = SetSupervisor2(st1.edf, exams_df[pos].idx, exam.section)
                        /\ section_daily_count' =
                               Incr(section_daily_count, <<exam.section, DateStr(exam.date)>>)
                        /\ section_total_count' = Incr(section_total_count, exam.section)
                   ELSE /\ exams_df' = st1.edf
                        /\ UNCHANGED <<section_daily_count, section_total_count>>
    /\ pos' = pos + 1
    /\ UNCHANGED <<sessionVars, callVars, fileVars, inputs, pc, logicVars, teacher_assignments, run, first_result>>

\* Line 271: the table and the two total counters are returned.
V2_Return ==
    /\ engine = "v2" /\ pc = "loop" /\ pos > Len(exams_df)
    /\ pc' = "done"
    /\ UNCHANGED <<sessionVars, callVars, fileVars, inputs, exams_df, pos, logicVars, v2Vars, teacher_assignments,
                   run, first_result>>

NextV2 ==
    \/ V2_Parse
    \/ V2_Expand
    \/ V2_Start
    \/ V2_AssignExam
    \/ V2_Return

SpecV2 == InitV2 /\ [][NextV2]_vars

-----------------------------------------------------------------------------
(* assign_supervisors_auto (src/app_final.py) as main calls it.            *)

\* parse_exam_schedule(exam_file), the table handed to assign_supervisors_auto.
Auto_Parse ==
    /\ engine = "auto" /\ pc = "call"
    /\ IF \E k \in DOMAIN exams_in : IsNa(exams_in[k].date_cell)
       THEN \* re.search of line 70 raises TypeError on a missing cell
            /\ pc' = "raised"
            /\ UNCHANGED exams_df
       ELSE /\ exams_df' = ParseExamScheduleAuto(exams_in)
            /\ pc' = "assign"
    /\ UNCHANGED <<sessionVars, callVars, fileVars, inputs, pos, logicVars, v2Vars, teacher_assignments, run, first_result>>

\* Lines 86-90: the counter, empty.
Auto_Start ==
    /\ engine = "auto" /\ pc = "assign"
    /\ teacher_assignments' = <<>>
    /\ pos' = 1
    /\ pc' = "loop"
    /\ UNCHANGED <<sessionVars, callVars, fileVars, inputs, exams_df, logicVars, v2Vars, run, first_result>>

\* Lines 93-129: one exam row.
Auto_AssignExam ==
    /\ engine = "auto" /\ pc = "loop" /\ pos <= Len(exams_df)
    /\ LET exam == exams_df[pos].row
           idx == exams_df[pos].idx
           date == exam.date
           available_teachers ==
               SortAuto(AvailableTeachersAuto(teachers_df, teacher_assignments, date,
                                              exam.subject),
                        teacher_assignments, date)
       IN  IF Len(available_teachers) >= 2
           THEN /\ exams_df' = SetSupervisor2(SetSupervisor1(exams_df, idx,
                                                             available_teachers[1][1]),
                                              idx, available_teachers[2][1])
                /\ teacher_assignments' =
                       Incr(Incr(teacher_assignments, <<date, available_teachers[1][1]>>),
                            <<date, available_teachers[2][1]>>)
           ELSE IF Len(available_teachers) = 1
           THEN /\ exams_df' = SetSupervisor2(SetSupervisor1(exams_df, idx,
                                                             available_teachers[1][1]),
                                              idx, "")
                /\ UNCHANGED teacher_assignments
           ELSE /\ exams_df' = SetSupervisor2(SetSupervisor1(exams_df, idx, ""), idx, "")
                /\ UNCHANGED teacher_assignments
    /\ pos' = pos + 1
    /\ UNCHANGED <<sessionVars, callVars, fileVars, inputs, pc, logicVars, v2Vars, run, first_result>>

\* Line 131: the table is returned.
Auto_Return ==
    /\ engine = "auto" /\ pc = "loop" /\ pos > Len(exams_df)
    /\ pc' = "done"
    /\ UNCHANGED <<sessionVars, callVars, fileVars, inputs, exams_df, pos, logicVars, v2Vars, teacher_assignments,
                   run, first_result>>

NextAuto ==
    \/ Auto_Parse
    \/ Auto_Start
    \/ Auto_AssignExam
    \/ Auto_Return

SpecAuto == InitAuto /\ [][NextAuto]_vars

-----------------------------------------------------------------------------
(* The engine run a second time on the same tables (a fresh copy of the    *)
(* exam table for smart_v2 and auto, which main parses again on every run   *)
(* of the script).                                                          *)

\* What a run returns: logic.py line 192, app_with_sections.py line 271,
\* app_final.py line 131.
Result ==
    CASE engine = "logic" -> <<assignments, warnings_list>>
      [] engine = "v2" -> <<exams_df, teacher_total_count, section_total_count>>
      [] engine = "auto" -> <<exams_df>>

\* The caller keeps what the first run returned and calls the engine again; the
\* locals of the first call keep their last values until the code sets them.
Rerun ==
    /\ pc = "done" /\ run = 1
    /\ first_result' = Result
    /\ run' = 2
    /\ pc' = "call"
    /\ UNCHANGED <<sessionVars, callVars, fileVars, inputs, exams_df, pos, logicVars, v2Vars, teacher_assignments>>

InitEngines == InitLogic \/ InitV2 \/ InitAuto

NextEngines == NextLogic \/ NextV2 \/ NextAuto \/ Rerun

SpecRerun == InitEngines /\ [][NextEngines]_vars

\* main before the files are read (app.py line 187): the tables are empty.
InitUnread ==
    /\ engine = "logic"
    /\ teachers_df = <<>>
    /\ exams_in = <<>>
    /\ sections_df = <<>>
    /\ selected_level = NoneStr
    /\ teacher_columns = Columns(TeacherRows)
    /\ exam_columns = Columns(ExamRows)
    /\ InitResults
    /\ NoCall
    /\ pc = "read"

\* main reads the two files (app.py lines 189-190) and calls distribute_invigilators.
ReadTables ==
    /\ engine = "logic" /\ pc = "read"
    /\ teachers_df' \in TeacherTables
    /\ exams_in' \in ExamTables
    /\ pc' = "call"
    /\ UNCHANGED <<sessionVars, callVars, fileVars, engine, sections_df, selected_level, exams_df, pos,
                   logicVars, v2Vars, teacher_assignments, run, first_result>>

NextFair == ReadTables \/ NextLogic

\* Where the run is: the statement, the exam row, the slot.
position == <<pc, pos, i>>

\* The interpreter executes the next statement while main has not got the
\* result: every statement of lines 137-192 moves the position, and nothing in
\* them waits.
Running ==
    /\ pc \in {"read", "call", "loop", "slots"}
    /\ pc' \in {"call", "loop", "slots", "done", "raised"}
    /\ pos' \in {1, pos, pos + 1}
    /\ i' \in {0, i, i + 1}
    /\ position' # position

SpecFair == InitUnread /\ [][NextFair]_vars /\ WF_position(Running)

-----------------------------------------------------------------------------
(* distribute_invigilators called again on the teacher table with its rows *)
(* in another order.                                                       *)

\* The tables with the rows of tdf in any order.
RowOrders(tdf) ==
    {[k \in DOMAIN tdf |-> tdf[p[k]]] :
        p \in {f \in [DOMAIN tdf -> DOMAIN tdf] : \A j, k \in DOMAIN tdf : j # k => f[j] # f[k]}}

\* The caller keeps what the first run returned, reorders the teacher rows (when
\* there are two or more) and calls distribute_invigilators again.
RerunReordered ==
    /\ engine = "logic" /\ pc = "done" /\ run = 1
    /\ first_result' = Result
    /\ run' = 2
    /\ pc' = "call"
    /\ teachers_df' \in IF RowOrders(teachers_df) = {teachers_df}
                        THEN {teachers_df}
                        ELSE RowOrders(teachers_df) \ {teachers_df}
    /\ UNCHANGED <<sessionVars, callVars, fileVars, engine, exams_in, sections_df, selected_level, exams_df,
                   pos, logicVars, v2Vars, teacher_assignments>>

NextReordered == NextLogic \/ RerunReordered

SpecReordered == InitLogic /\ [][NextReordered]_vars

-----------------------------------------------------------------------------
(* app.py main runs distribute_invigilators for one level, keeps the       *)
(* result in the session store, and runs it for another level.             *)

\* Exams of two levels on one date.
TwoLevelExamRows ==
    {[exam_date |-> "2025-01-10", start_time |-> t[1], end_time |-> t[2], subject |-> s,
      level |-> l, invigilators_needed |-> n] :
        t \in {<<"08:00", "10:00">>, <<"09:00", "11:00">>, <<"10:00", "12:00">>},
        s \in Subjects, l \in {"L1", "L2"}, n \in NeededCounts}

InitLevels ==
    /\ engine = "logic"
    /\ teachers_df \in {t \in TeacherTables : \A k \in DOMAIN t : t[k].unavailable = NaN}
    /\ exams_in \in SeqsUpTo(TwoLevelExamRows, MaxExams)
    /\ sections_df = <<>>
    /\ selected_level = "L1"
    /\ InitLocals

\* app.py main, lines 240-272: the result of level L1 is in the session store;
\* the user picks L2 and presses the button.
RunOtherLevel ==
    /\ engine = "logic" /\ pc = "done" /\ run = 1
    /\ first_result' = Result
    /\ run' = 2
    /\ selected_level' = "L2"
    /\ pc' = "call"
    /\ UNCHANGED <<sessionVars, callVars, fileVars, engine, teachers_df, exams_in, sections_df, exams_df,
                   pos, logicVars, v2Vars, teacher_assignments>>

NextLevels == NextLogic \/ RunOtherLevel

SpecLevels == InitLevels /\ [][NextLevels]_vars

-----------------------------------------------------------------------------
(* The engines on tables in which a date cell may hold text that is no     *)
(* date, or (schedule files) be missing.                                   *)

\* Text in a date cell that is no date.
NoDateText == "unknown"

ExamRowsMaybeUndated ==
    {[exam_date |-> d, start_time |-> t[1], end_time |-> t[2], subject |-> s,
      level |-> l, invigilators_needed |-> n] :
        d \in {"2025-01-10", NoDateText}, t \in {<<"08:00", "10:00">>, <<"09:00", "11:00">>},
        s \in Subjects, l \in Levels, n \in NeededCounts}

ScheduleRowsMaybeUndated ==
    [date_cell : {"Sun 2025/01/12", NoDateText, NaN}, level_cell : {"alawwal", "althani"},
     s2 : {"Math (A)", "Arabic"}, s34 : {NaN}]

InitUndated ==
    /\ engine \in {"logic", "v2", "auto"}
    /\ IF engine = "logic"
       THEN /\ teachers_df \in {t \in TeacherTables :
                                   \A k \in DOMAIN t : t[k].unavailable = NaN}
            /\ exams_in \in SeqsUpTo(ExamRowsMaybeUndated, MaxExams)
            /\ sections_df = <<>>
       ELSE /\ teachers_df \in StaffTables
            /\ exams_in \in SeqsUpTo(ScheduleRowsMaybeUndated, MaxExams)
            /\ sections_df \in IF engine = "v2" THEN {<<>>, <<"thani1", "thani2">>} ELSE {<<>>}
    /\ selected_level = NoneStr
    /\ InitLocals

NextUndated == NextLogic \/ NextV2 \/ NextAuto

SpecUndated == InitUndated /\ [][NextUndated]_vars

-----------------------------------------------------------------------------
(* The column checks of main (app.py, app_v2.py) on the loaded files.      *)
(* The Arabic texts shown are written in English.                          *)

RECURSIVE Join(_, _)
\* sep.join(parts)
Join(sep, parts) ==
    IF parts = <<>> THEN <<>>
    ELSE IF Len(parts) = 1 THEN Chars(parts[1])
    ELSE Chars(parts[1]) \o sep \o Join(sep, Tail(parts))

MissingColsFirstOnly(required, columns) ==
    LET missing == SelectSeqIdx(required, {k \in DOMAIN required : required[k] \notin columns})
    IN  IF missing = <<>> THEN <<>> ELSE <<missing[1]>>

\* [col for col in required if col not in df.columns]
MissingCols(required, columns) ==
    SelectSeqIdx(required, {k \in DOMAIN required : required[k] \notin columns})

required_cols == <<"exam_date", "start_time", "end_time", "subject">>

\* validate_exam_file (logic_v2.py): (is_valid, error_message)
ValidateExamFile(columns) ==
    LET missing_cols == MissingCols(required_cols, columns)
    IN  IF missing_cols # <<>>
        THEN <<FALSE, Chars("missing columns: ") \o Join(Chars(", "), missing_cols)>>
        ELSE IF "grade" \notin columns /\ "level" \notin columns
        THEN <<FALSE, Chars("need column 'grade' or 'level'")>>
        ELSE <<TRUE, <<>>>>

required_teacher_cols == <<"teacher_name", "specialty", "max_per_day">>

required_exam_cols == <<"exam_date", "start_time", "end_time", "subject", "level", "section",
                        "invigilators_needed">>

RECURSIVE Sorted(_)
\* sorted(levels) of a list without repeats
Sorted(S) ==
    IF S = {} THEN <<>>
    ELSE LET m == CHOOSE x \in S : \A y \in S \ {x} : StrLess(x, y)
         IN  <<m>> \o Sorted(S \ {m})

\* get_available_levels (logic.py)
GetAvailableLevels(edf, columns) ==
    IF "level" \notin columns THEN <<>>
    ELSE Sorted({Str(Strip(Chars(PyStr(edf[k].level)))) :
                    k \in {j \in DOMAIN edf : ~ IsNa(edf[j].level)}} \ {""})

\* The exam file of app.py has a section column as well.
LoadedExamRows ==
    {[exam_date |-> "2025-01-10", start_time |-> "08:00", end_time |-> "10:00",
      subject |-> s, level |-> l, section |-> "1", invigilators_needed |-> n] :
        s \in Subjects, l \in Levels, n \in NeededCounts}

\* main after the files are read: app.py line 196, app_v2.py line 181.
InitFiles ==
    /\ engine \in {"app", "app_v2"}
    /\ IF engine = "app"
       THEN /\ teacher_columns \in SUBSET Range(required_teacher_cols)
            /\ exam_columns \in SUBSET Range(required_exam_cols)
            /\ teachers_df \in {t \in TeacherTables : Len(t) = 1}
            /\ exams_in \in SeqsUpTo(LoadedExamRows, 1)
       ELSE /\ teacher_columns = {}
            /\ exam_columns \in SUBSET (Range(required_cols) \cup {"grade", "level"})
            /\ teachers_df = <<>>
            /\ exams_in = <<>>
    /\ sections_df = <<>>
    /\ selected_level = NoneStr
    /\ pc = "loaded"
    /\ InitResults
    /\ NoCall

\* app.py main, lines 198-211
App_ValidateColumns ==
    /\ engine = "app" /\ pc = "loaded"
    /\ LET missing_teacher == MissingCols(required_teacher_cols, teacher_columns)
           missing_exam == MissingCols(required_exam_cols, exam_columns)
       IN  IF missing_teacher # <<>> \/ missing_exam # <<>>
           THEN /\ shown' = shown \o <<Chars("missing columns in the files:")>>
                        \o (IF missing_teacher # <<>>
                            THEN <<Chars("teachers file: ") \o Join(Chars(", "), missing_teacher)>>
                            ELSE <<>>)
                        \o (IF missing_exam # <<>>
                            THEN <<Chars("exams file: ") \o Join(Chars(", "), missing_exam)>>
                            ELSE <<>>)
                /\ pc' = "returned"
           ELSE /\ pc' = "levels"
                /\ UNCHANGED shown
    /\ UNCHANGED <<inputs, exams_df, pos, logicVars, v2Vars, teacher_assignments, run,
                   first_result, teacher_columns, exam_columns, validation, sessionVars, callVars>>

\* app.py main, lines 213-250: a level button is pressed, or none is
App_SelectLevel ==
    /\ engine = "app" /\ pc = "levels"
    /\ \E available_levels \in {GetAvailableLevels(exams_in, exam_columns)} :
          IF available_levels = <<>>
          THEN /\ shown' = Append(shown, Chars("no levels in the exams file"))
               /\ pc' = "returned"
               /\ UNCHANGED selected_level
          ELSE /\ \E level \in Range(available_levels) \cup {NoneStr} :
                     /\ selected_level' = level
                     /\ pc' = IF level = NoneStr THEN "returned" ELSE "selected"
               /\ UNCHANGED shown
    /\ UNCHANGED <<engine, teachers_df, exams_in, sections_df, exams_df, pos, logicVars, v2Vars,
                   teacher_assignments, run, first_result, teacher_columns, exam_columns,
                   validation, sessionVars, callVars>>

\* app.py main, lines 263-269: the button is pressed, distribute_invigilators is called
App_Distribute ==
    /\ engine = "app" /\ pc = "selected"
    /\ engine' = "logic"
    /\ pc' = "call"
    /\ UNCHANGED <<teachers_df, exams_in, sections_df, selected_level, exams_df, pos, logicVars,
                   v2Vars, teacher_assignments, run, first_result, fileVars, sessionVars, callVars>>

\* app_v2.py main, lines 184-187
AppV2_Validate ==
    /\ engine = "app_v2" /\ pc = "loaded"
    /\ validation' = ValidateExamFile(exam_columns)
    /\ IF ~ validation'[1]
       THEN /\ shown' = Append(shown, Chars("error: ") \o validation'[2])
            /\ pc' = "returned"
       ELSE /\ pc' = "validated"
            /\ UNCHANGED shown
    /\ UNCHANGED <<inputs, exams_df, pos, logicVars, v2Vars, teacher_assignments, run,
                   first_result, teacher_columns, exam_columns, sessionVars, callVars>>

NextFiles == App_ValidateColumns \/ App_SelectLevel \/ App_Distribute \/ AppV2_Validate

SpecFiles == InitFiles /\ [][NextFiles]_vars

-----------------------------------------------------------------------------
(* Functions of logic.py called on their own: parse_time,                  *)
(* check_time_conflict, get_statistics.                                    *)

\* A parse_time that reads the text of the cell whatever its type.
ParseTimeTextOnly(cell) == ParseTime(cell.str)

\* parse_time on a cell of any type: a missing value (float NaN), a
\* datetime.time, or a str.  The cell is written [type, str, time]: the field
\* of its type holds the value.
ParseTimeOf(cell) ==
    IF cell.type = "time" THEN cell.time ELSE ParseTime(cell.str)

ValueCountsOnce(names) == [n \in Range(names) |-> 1]

\* Series.value_counts().to_dict()
ValueCounts(names) ==
    [n \in Range(names) |-> Cardinality({k \in DOMAIN names : names[k] = n})]

RECURSIVE SumOver(_, _)
\* sum(loads), loads the values of the dict d over the keys in keys
SumOver(d, keys) ==
    IF keys = {} THEN 0
    ELSE LET n == CHOOSE x \in keys : TRUE IN d[n] + SumOver(d, keys \ {n})

MaxOf(S) == CHOOSE x \in S : \A y \in S : y <= x

MinOf(S) == CHOOSE x \in S : \A y \in S : x <= y

\* get_statistics: {} is <<>>; a float quotient a / b is kept as <<a, b>>.
GetStatistics(rows) ==
    IF rows = <<>> THEN <<>>
    ELSE LET teacher_counts ==
                 ValueCounts([k \in DOMAIN rows |-> rows[k].teacher_name])
             total == Len(rows)
             different_specialty ==
                 Cardinality({k \in DOMAIN rows :
                     Contains(Chars("different specialty"), Chars(rows[k].notes))})
             loads == Range(teacher_counts)
         IN  [total_assignments |-> total,
              different_specialty_pct |-> <<different_specialty * 100, total>>,
              avg_load |-> <<SumOver(teacher_counts, DOMAIN teacher_counts),
                             Cardinality(DOMAIN teacher_counts)>>,
              max_load |-> MaxOf(loads),
              min_load |-> MinOf(loads),
              teacher_counts |-> teacher_counts]

\* The cells parse_time is called on.
TimeCellValues ==
    {[type |-> "float", str |-> NaN, time |-> None]}
    \cup {[type |-> "time", str |-> "", time |-> t] : t \in {<<8, 0>>, <<10, 30>>}}
    \cup {[type |-> "str", str |-> s, time |-> None] :
             s \in {"08:00", "10:30", "8:5", " 08:00 ", "24:00", "08:60", "0800", "08:00:00",
                    "", "unknown", "2025-01-10"}}

\* datetime.time values, and None
TimeValues == {<<8, 0>>, <<9, 0>>, <<10, 0>>, <<10, 30>>, None}

\* The rows get_statistics reads: the teacher_name and notes of an assignment.
StatRows == [teacher_name : {"A", "B"}, notes : {"different specialty", "same specialty"}]

InitCalls ==
    /\ engine = NoneStr
    /\ teachers_df = <<>>
    /\ exams_in = <<>>
    /\ sections_df = <<>>
    /\ selected_level = NoneStr
    /\ teacher_columns = {}
    /\ exam_columns = {}
    /\ pc = "call"
    /\ InitResults
    /\ fn \in {"parse_time", "check_time_conflict", "get_statistics"}
    /\ args \in CASE fn = "parse_time" -> TimeCellValues
                  [] fn = "check_time_conflict" -> [1..4 -> TimeValues]
                  [] OTHER -> SeqsUpTo(StatRows, MaxRows)
    /\ result = None

\* parse_time(time_str)
Call_ParseTime ==
    /\ fn = "parse_time" /\ pc = "call"
    /\ result' = ParseTimeOf(args)
    /\ pc' = "returned"
    /\ UNCHANGED <<inputs, exams_df, pos, logicVars, v2Vars, teacher_assignments, run,
                   first_result, fileVars, sessionVars, fn, args>>

\* check_time_conflict(exam1_start, exam1_end, exam2_start, exam2_end)
Call_CheckTimeConflict ==
    /\ fn = "check_time_conflict" /\ pc = "call"
    /\ result' = CheckTimeConflict(args[1], args[2], args[3], args[4])
    /\ pc' = "returned"
    /\ UNCHANGED <<inputs, exams_df, pos, logicVars, v2Vars, teacher_assignments, run,
                   first_result, fileVars, sessionVars, fn, args>>

\* get_statistics(assignments, teachers_df), called once or again on the same list
Call_GetStatistics ==
    /\ fn = "get_statistics" /\ pc \in {"call", "returned"}
    /\ result' = GetStatistics(args)
    /\ pc' = "returned"
    /\ UNCHANGED <<inputs, exams_df, pos, logicVars, v2Vars, teacher_assignments, run,
                   first_result, fileVars, sessionVars, fn, args>>

NextCalls == Call_ParseTime \/ Call_CheckTimeConflict \/ Call_GetStatistics

SpecCalls == InitCalls /\ [][NextCalls]_vars

-----------------------------------------------------------------------------
(* app.py main over the events of a session.  Streamlit runs main again on *)
(* every event; st.session_state lasts over the runs.                      *)

\* The teacher files and exam files the user uploads, with all their columns.
UploadedTeacherTables ==
    {<<>>} \cup {<<[teacher_name |-> n, specialty |-> "Arabic", max_per_day |-> 2,
                    unavailable |-> NaN]>> : n \in {"A", "B"}}

UploadedExamTables ==
    SeqsUpTo({[exam_date |-> "2025-01-10", start_time |-> t[1], end_time |-> t[2],
               subject |-> "math ", level |-> "L1", invigilators_needed |-> n] :
                 t \in {<<"08:00", "10:00">>, <<"09:00", "11:00">>}, n \in NeededCounts}, 1)

\* Lines 213-280 of a run of main in which the distribute button was not
\* pressed: what the page shows of the kept results.
ShowKept(store, level, edf) ==
    IF \/ GetAvailableLevels(edf, Columns(ExamRows)) = <<>>
       \/ level = NoneStr
       \/ level \notin DOMAIN store
    THEN None
    ELSE IF store[level][1] = <<>> THEN None ELSE store[level]

InitSession ==
    /\ engine = "logic"
    /\ teachers_df \in UploadedTeacherTables
    /\ exams_in \in UploadedExamTables
    /\ sections_df = <<>>
    /\ selected_level = NoneStr
    /\ teacher_columns = Columns(TeacherRows)
    /\ exam_columns = Columns(ExamRows)
    /\ pc = "page"
    /\ InitResults
    /\ NoCall

\* The user uploads files (lines 189-190): main runs again without the button.
Page_Upload ==
    /\ engine = "logic" /\ pc = "page"
    /\ teachers_df' \in UploadedTeacherTables
    /\ exams_in' \in UploadedExamTables
    /\ displayed' = ShowKept(session_state, selected_level, exams_in')
    /\ UNCHANGED <<engine, sections_df, selected_level, pc, exams_df, pos, logicVars, v2Vars,
                   teacher_assignments, run, first_result, fileVars, callVars, session_state>>

\* The user presses a level button (lines 238-246): main runs without the
\* distribute button.
Page_SelectLevel ==
    /\ engine = "logic" /\ pc = "page"
    /\ \E level \in Range(GetAvailableLevels(exams_in, exam_columns)) :
          /\ selected_level' = level
          /\ displayed' = ShowKept(session_state, level, exams_in)
    /\ UNCHANGED <<engine, teachers_df, exams_in, sections_df, pc, exams_df, pos, logicVars,
                   v2Vars, teacher_assignments, run, first_result, fileVars, callVars,
                   session_state>>

\* The user presses the distribute button (lines 263-269).
Page_Distribute ==
    /\ engine = "logic" /\ pc = "page"
    /\ GetAvailableLevels(exams_in, exam_columns) # <<>>
    /\ selected_level # NoneStr
    /\ pc' = "call"
    /\ UNCHANGED <<inputs, exams_df, pos, logicVars, v2Vars, teacher_assignments, run,
                   first_result, fileVars, callVars, sessionVars>>

\* Lines 270-280: the result is kept under the level and shown.
Page_Keep ==
    /\ engine = "logic" /\ pc = "done"
    /\ session_state' = [l \in DOMAIN session_state \cup {selected_level} |->
                            IF l = selected_level THEN Result ELSE session_state[l]]
    /\ displayed' = IF assignments = <<>> THEN None ELSE Result
    /\ pc' = "page"
    /\ UNCHANGED <<inputs, exams_df, pos, logicVars, v2Vars, teacher_assignments, run,
                   first_result, fileVars, callVars>>

NextSession ==
    \/ Page_Upload
    \/ Page_SelectLevel
    \/ Page_Distribute
    \/ NextLogic
    \/ Page_Keep

SpecSession == InitSession /\ [][NextSession]_vars

-----------------------------------------------------------------------------
(* Properties of distribute_invigilators, under Spec.                      *)

\* The assignment rows made for the exam labelled idx, in list order.
RowsOf(idx) == SelectSeqIdx(assignments, {k \in DOMAIN assignments : row_exam[k] = idx})

\* The warning rows made for the exam labelled idx, in list order.
WarningsOf(idx) ==
    SelectSeqIdx(warnings_list, {k \in DOMAIN warnings_list : warn_exam[k] = idx})

\* The inner loop of the exam at pos - 1 is over; eligible is still its list.
SessionClosed == pc \in {"loop", "done"} /\ pos > 1

\* C1: in every state of a run of distribute_invigilators, for every teacher t and
\* every exam date d, the assignment rows with teacher_name = t and exam_date = d
\* number at most t's max_per_day.
C1_DailyCapacityNeverExceeded ==
    \A t \in DOMAIN teachers_df : \A r \in DOMAIN assignments :
        Cardinality({k \in DOMAIN assignments :
                        /\ assignments[k].teacher_name = teachers_df[t].teacher_name
                        /\ assignments[k].exam_date = assignments[r].exam_date})
            <= teachers_df[t].max_per_day

\* The only teacher, with max_per_day 1, has a row on a date, and a later exam of
\* that date, which starts no earlier than the row ends, got a warning: the
\* teacher was left out of it by the daily limit alone.
C1_TeacherAtCapacityLeftOut ==
    /\ pc = "done"
    /\ Len(teachers_df) = 1
    /\ teachers_df[1].max_per_day = 1
    /\ \E r \in DOMAIN assignments : \E w \in DOMAIN warnings_list :
          /\ assignments[r].teacher_name = teachers_df[1].teacher_name
          /\ warnings_list[w].exam_date = assignments[r].exam_date
          /\ ~ TupleLess(warnings_list[w].time[1], assignments[r].end_time)

\* C2: the assignment list never holds two rows with the same teacher_name and
\* the same exam_date whose time ranges overlap (start_a < end_b and
\* start_b < end_a), the times of both rows being present.
C2_NoOverlappingRowsOfATeacher ==
    \A a, b \in DOMAIN assignments :
        (/\ a # b
         /\ assignments[a].teacher_name = assignments[b].teacher_name
         /\ assignments[a].exam_date = assignments[b].exam_date
         /\ assignments[a].start_time # None /\ assignments[a].end_time # None
         /\ assignments[b].start_time # None /\ assignments[b].end_time # None)
        => ~ (/\ TupleLess(assignments[a].start_time, assignments[b].end_time)
              /\ TupleLess(assignments[b].start_time, assignments[a].end_time))

\* The only teacher, whose max_per_day is 2, has one row, and an exam of the same
\* date whose time range overlaps the row's got a warning: the teacher was left
\* out of it by the overlap alone.
C2_OverlappingExamLeftUnfilled ==
    /\ pc = "done"
    /\ Len(teachers_df) = 1
    /\ teachers_df[1].max_per_day = 2
    /\ Len(assignments) = 1
    /\ assignments[1].teacher_name = teachers_df[1].teacher_name
    /\ \E w \in DOMAIN warnings_list :
          /\ warnings_list[w].exam_date = assignments[1].exam_date
          /\ TupleLess(warnings_list[w].time[1], assignments[1].end_time)
          /\ TupleLess(assignments[1].start_time, warnings_list[w].time[2])

\* C3: a session with required count K and M eligible teachers gets exactly
\* min(K, M) assignment rows, naming pairwise distinct teachers; the count
\* exceeds neither K nor M.
C3_MinOfNeededAndEligible ==
    SessionClosed =>
        LET exam == exams_df[pos - 1]
            K == exam.invigilators_needed
            M == Len(eligible)
            rows == RowsOf(exam.idx)
        IN  /\ Len(rows) = Min(K, M)
            /\ Len(rows) <= K
            /\ Len(rows) <= M
            /\ \A j, k \in DOMAIN rows :
                   j # k => rows[j].teacher_name # rows[k].teacher_name

\* A session that needs one teacher had two eligible and got one row.
C3_MoreEligibleThanNeeded ==
    /\ SessionClosed
    /\ exams_df[pos - 1].invigilators_needed = 1
    /\ Len(eligible) = 2
    /\ Len(RowsOf(exams_df[pos - 1].idx)) = 1

\* C4: a session whose eligible count M is below its required count K has all M
\* eligible teachers assigned and exactly one warning, with required = K and
\* filled = M; a session with M >= K has no warning.
C4_OneWarningPerShortSession ==
    SessionClosed =>
        LET exam == exams_df[pos - 1]
            K == exam.invigilators_needed
            M == Len(eligible)
            warns == WarningsOf(exam.idx)
        IN  IF M < K
            THEN /\ Len(RowsOf(exam.idx)) = M
                 /\ Len(warns) = 1
                 /\ warns[1].required = K
                 /\ warns[1].filled = M
            ELSE warns = <<>>

\* Whether row a comes no later than row b in (exam_date, start_time) order, a
\* missing start_time last.
NoLaterThan(a, b) ==
    \/ TupleLess(a.exam_date, b.exam_date)
    \/ /\ a.exam_date = b.exam_date
       /\ \/ b.start_time = None
          \/ a.start_time # None /\ ~ TupleLess(b.start_time, a.start_time)

\* Two exams of one date, 08:00-10:00 and 09:00-11:00 in either row order, each
\* needing one teacher, and a single teacher with no unavailable date.
TwoExamsOneTeacher ==
    /\ Len(teachers_df) = 1
    /\ teachers_df[1].unavailable = NaN
    /\ Len(exams_in) = 2
    /\ exams_in[1].exam_date = exams_in[2].exam_date
    /\ {<<exams_in[k].start_time, exams_in[k].end_time>> : k \in 1..2}
           = {<<"08:00", "10:00">>, <<"09:00", "11:00">>}
    /\ \A k \in 1..2 : exams_in[k].invigilators_needed = 1

\* C6: the exams are processed, and the assignment rows listed, in non-decreasing
\* (exam_date, start_time) order whatever the row order of the input; of two
\* overlapping exams of one day that compete for a single teacher, the earlier
\* gets the teacher and the later a warning with filled = 0.
C6_EarlierExamFirst ==
    /\ \A j, k \in DOMAIN exams_df : j < k => NoLaterThan(exams_df[j], exams_df[k])
    /\ \A j, k \in DOMAIN assignments : j < k => NoLaterThan(assignments[j], assignments[k])
    /\ (pc = "done" /\ TwoExamsOneTeacher) =>
           /\ Len(assignments) = 1
           /\ assignments[1].teacher_name = teachers_df[1].teacher_name
           /\ exams_in[row_exam[1]].start_time = "08:00"
           /\ Len(warnings_list) = 1
           /\ exams_in[warn_exam[1]].start_time = "09:00"
           /\ warnings_list[1].required = 1
           /\ warnings_list[1].filled = 0

\* The later exam is the first row of the input, and the teacher went to the
\* earlier one.
C6_LaterExamGivenFirst ==
    /\ pc = "done"
    /\ TwoExamsOneTeacher
    /\ exams_in[1].start_time = "09:00"
    /\ Len(assignments) = 1
    /\ row_exam[1] = 2

\* C7: a teacher whose unavailable field contains the date of a session, as the
\* exam table writes it, has no assignment row for that session.
C7_UnavailableDateNeverAssigned ==
    \A r \in DOMAIN assignments : \A t \in DOMAIN teachers_df :
        (/\ teachers_df[t].teacher_name = assignments[r].teacher_name
         /\ ~ IsNa(teachers_df[t].unavailable))
        => ~ Contains(Chars(exams_in[row_exam[r]].exam_date),
                      Chars(teachers_df[t].unavailable))

\* The teacher row of a name.
TeacherNamed(name) ==
    teachers_df[CHOOSE t \in DOMAIN teachers_df : teachers_df[t].teacher_name = name]

\* Whether teacher row a ranks strictly before teacher row b for the exam labelled
\* idx: a specialty other than the subject first, then the rows made for earlier
\* exams ascending, then the name ascending.
RanksBefore(a, b, subject, idx) ==
    LET same(t) == Lower(Strip(Chars(PyStr(t.specialty)))) = Lower(Strip(Chars(subject)))
        load(t) == Cardinality({k \in DOMAIN assignments :
                                   /\ assignments[k].teacher_name = t.teacher_name
                                   /\ row_exam[k] # idx})
    IN  \/ ~ same(a) /\ same(b)
        \/ /\ same(a) = same(b)
           /\ \/ load(a) < load(b)
              \/ load(a) = load(b) /\ StrLess(a.teacher_name, b.teacher_name)

\* C8: the teachers assigned to a session are the first min(K, M) of its eligible
\* list, slot by slot in the list's order, and the list is in strictly ascending
\* order of the key (different specialty first, total load, name): an assigned
\* teacher's key is strictly smaller than that of an eligible teacher left out.
C8_FirstOfRankedList ==
    SessionClosed =>
        LET exam == exams_df[pos - 1]
            rows == RowsOf(exam.idx)
        IN  /\ Len(rows) = Min(exam.invigilators_needed, Len(eligible))
            /\ \A k \in DOMAIN rows : rows[k].teacher_name = eligible[k].teacher_name
            /\ \A j, k \in DOMAIN eligible :
                   j < k => RanksBefore(TeacherNamed(eligible[j].teacher_name),
                                        TeacherNamed(eligible[k].teacher_name),
                                        exam.subject, exam.idx)

\* Two teachers were eligible for a session that needs one; the second row of the
\* teacher table, of another specialty, got it before the first row, of the
\* subject's specialty.
C8_DifferentSpecialtyPreferred ==
    /\ SessionClosed
    /\ exams_df[pos - 1].invigilators_needed = 1
    /\ Len(eligible) = 2
    /\ Len(teachers_df) = 2
    /\ teachers_df[1].specialty = "Math"
    /\ teachers_df[2].specialty = "Arabic"
    /\ RowsOf(exams_df[pos - 1].idx) # <<>>
    /\ RowsOf(exams_df[pos - 1].idx)[1].teacher_name = teachers_df[2].teacher_name

-----------------------------------------------------------------------------
(* Properties of assign_supervisors_smart_v2, under SpecV2.                *)

\* Whether the teacher of this name has the subject as specialty, both normalized.
SameSpecialty(name, subject) ==
    \E t \in DOMAIN teachers_df :
        /\ teachers_df[t].teacher_name = name
        /\ NormalizeSubjectName(teachers_df[t].specialty) = NormalizeSubjectName(subject)

\* C9: no exam row has as supervisor1, or for a first grade exam as supervisor2,
\* a teacher whose normalized specialty equals the row's normalized subject.
C9_SameSpecialtyNeverSelected ==
    \A k \in DOMAIN exams_df :
        /\ ~ SameSpecialty(exams_df[k].row.supervisor1, exams_df[k].row.subject)
        /\ Contains(Chars("awwal"), Chars(exams_df[k].row.level))
               => ~ SameSpecialty(exams_df[k].row.supervisor2, exams_df[k].row.subject)

\* A first grade Math exam: the Math teacher, first in the table, was passed over
\* for both places, and the Arabic teacher is supervisor1.
C9_MathTeacherPassedOver ==
    /\ pc = "done"
    /\ Len(teachers_df) = 2
    /\ teachers_df[1].specialty = "Math"
    /\ teachers_df[2].specialty = "Arabic"
    /\ \E k \in DOMAIN exams_df :
          /\ exams_df[k].row.subject = "Math (A)"
          /\ exams_df[k].row.level = "awwal"
          /\ exams_df[k].row.supervisor1 = teachers_df[2].teacher_name
          /\ exams_df[k].row.supervisor2 = ""

\* The supervisors an exam row has.
Filled(row) == Cardinality({c \in {"supervisor1", "supervisor2"} : row[c] # ""})

\* C10: when the run is over, every first grade exam row with fewer than its two
\* supervisors is reported by a warning with required = 2 and filled = the
\* number it has.
C10_ShortSessionReported ==
    pc = "done" =>
        \A k \in DOMAIN exams_df :
            (/\ Contains(Chars("awwal"), Chars(exams_df[k].row.level))
             /\ Filled(exams_df[k].row) < 2)
            => \E w \in DOMAIN warnings_list :
                   /\ warnings_list[w].required = 2
                   /\ warnings_list[w].filled = Filled(exams_df[k].row)

-----------------------------------------------------------------------------
(* Determinism, under SpecRerun.                                           *)

-----------------------------------------------------------------------------
(* Properties of assign_supervisors_auto, under SpecAuto.                  *)

\* The teachers an exam row names as supervisors.
SupervisorsOf(row) ==
    {name \in {row.supervisor1, row.supervisor2} :
        \E t \in DOMAIN teachers_df : teachers_df[t].teacher_name = name}

\* The rows of the exam table dated d that name the teacher as a supervisor.
SupervisedOn(name, d) ==
    {k \in DOMAIN exams_df :
        exams_df[k].row.date = d /\ name \in SupervisorsOf(exams_df[k].row)}

\* C11: after any number of exam rows processed by assign_supervisors_auto, no
\* teacher is supervisor1 or supervisor2 in more than 3 rows of one date.
C11_AtMostThreeADay ==
    \A t \in DOMAIN teachers_df : \A k \in DOMAIN exams_df :
        Cardinality(SupervisedOn(teachers_df[t].teacher_name, exams_df[k].row.date)) <= 3

\* Whether the time ranges of two exam rows overlap.
RowsOverlap(a, b) ==
    /\ TupleLess(ParseTime(a.start_time), ParseTime(b.end_time))
    /\ TupleLess(ParseTime(b.start_time), ParseTime(a.end_time))

\* C12: no teacher is a supervisor of two exam rows of one date whose time
\* ranges overlap.
C12_NoOverlappingSessionsOfATeacher ==
    \A j, k \in DOMAIN exams_df :
        (/\ j # k
         /\ exams_df[j].row.date = exams_df[k].row.date
         /\ RowsOverlap(exams_df[j].row, exams_df[k].row))
        => SupervisorsOf(exams_df[j].row) \cap SupervisorsOf(exams_df[k].row) = {}

-----------------------------------------------------------------------------
(* Properties of assign_supervisors_smart_v2 on the expanded table, under  *)
(* SpecV2.                                                                 *)

\* C13: once the loop has processed an exam row, no later step of the loop
\* changes or removes the supervisor1 or supervisor2 recorded in that row.
C13_RecordsNeverChanged ==
    [][pc = "loop" =>
          \A k \in DOMAIN exams_df :
              k < pos =>
                  /\ exams_df'[k].row.supervisor1 = exams_df[k].row.supervisor1
                  /\ exams_df'[k].row.supervisor2 = exams_df[k].row.supervisor2]_vars

\* C14: when the run is over, every exam row whose level is not the first grade
\* and whose section is in the sections list has its own section as supervisor2.
C14_OwnSectionIsSupervisor2 ==
    pc = "done" =>
        \A k \in DOMAIN exams_df :
            (/\ ~ Contains(Chars("awwal"), Chars(exams_df[k].row.level))
             /\ \E j \in DOMAIN sections_df : sections_df[j] = exams_df[k].row.section)
            => exams_df[k].row.supervisor2 = exams_df[k].row.section

\* The sections of the pool still under the daily capacity of 3 on a date.
SectionsUnderCapacity(date_str) ==
    {u \in Range(sections_df) : Get(section_daily_count, <<u, date_str>>) < 3}

\* C15: a step of the loop gives the second place of an exam that is not of the
\* first grade only to a section still under its capacity of the day, and to one
\* of the least loaded of those; the second place of a first grade exam goes
\* to no section.
C15_SectionUnderCapacityLeastLoaded ==
    [][(pc = "loop" /\ pos <= Len(exams_df)) =>
          \A s \in Range(sections_df) :
              Get(section_total_count', s) > Get(section_total_count, s) =>
                  /\ ~ Contains(Chars("awwal"), Chars(exams_df[pos].row.level))
                  /\ s \in SectionsUnderCapacity(DateStr(exams_df[pos].row.date))
                  /\ \A u \in SectionsUnderCapacity(DateStr(exams_df[pos].row.date)) :
                         Get(section_total_count, s) <= Get(section_total_count, u)]_vars

\* The capacity half of C15 alone: no section is counted more than 3 times on a date.
SectionCountWithinCapacity ==
    \A key \in DOMAIN section_daily_count : section_daily_count[key] <= 3

-----------------------------------------------------------------------------
(* Properties of expand_exams_by_sections: the step V2_Expand, whose input *)
(* is exams_df and whose output is exams_df', under SpecV2.                *)

\* The sections of the table whose grade is the grade of the exam, in table order.
MatchingSections(grade) ==
    SelectSeqIdx(sections_df, {k \in DOMAIN sections_df : ExtractGrade(sections_df[k]) = grade})

\* max(1, number of matching sections) of the exam row at position k.
CopiesOf(k) ==
    IF MatchingSections(exams_df[k].row.grade) = <<>>
    THEN 1 ELSE Len(MatchingSections(exams_df[k].row.grade))

\* The number of output rows that come from the exam rows before position k.
RECURSIVE CopiesBefore(_)
CopiesBefore(k) == IF k <= 1 THEN 0 ELSE CopiesBefore(k - 1) + CopiesOf(k - 1)

\* C16: an exam row whose grade matches n >= 1 sections becomes n rows, at its
\* place in the input's order, the i-th with the i-th matching section and
\* otherwise equal to the exam row; the output has the sum over the exam rows
\* of max(1, number of matching sections) rows.
C16_OneCopyPerMatchingSection ==
    [][pc = "expand" =>
          /\ Len(exams_df') = CopiesBefore(Len(exams_df) + 1)
          /\ \A k \in DOMAIN exams_df :
                 \A n \in DOMAIN MatchingSections(exams_df[k].row.grade) :
                     exams_df'[CopiesBefore(k) + n].row =
                         [exams_df[k].row EXCEPT
                              !.section = MatchingSections(exams_df[k].row.grade)[n]]]_vars

\* The table after the expansion: an exam of the first grade, which matches no
\* section, then the two copies of an exam of the second grade.
C16_TwoCopiesInSectionOrder ==
    /\ pc = "assign"
    /\ sections_df = <<"thani1", "thani2">>
    /\ Len(exams_df) = 3
    /\ exams_df[1].row.grade = "awwal" /\ exams_df[1].row.section = ""
    /\ exams_df[2].row.grade = "thani" /\ exams_df[2].row.section = "thani1"
    /\ exams_df[3].row.grade = "thani" /\ exams_df[3].row.section = "thani2"

\* C17: an exam row whose grade matches no section becomes exactly one row,
\* equal to it; with no sections table, or an empty one, the table is returned
\* unchanged.
C17_NoMatchPassesThrough ==
    [][pc = "expand" =>
          /\ sections_df = <<>> => exams_df' = exams_df
          /\ \A k \in DOMAIN exams_df :
                 MatchingSections(exams_df[k].row.grade) = <<>> =>
                     /\ CopiesBefore(k) + 1 <= Len(exams_df')
                     /\ exams_df'[CopiesBefore(k) + 1] = exams_df[k]
                     /\ Len(exams_df') - CopiesBefore(k) - 1
                            = CopiesBefore(Len(exams_df) + 1) - CopiesBefore(k + 1)]_vars

\* A table of one exam of the first grade, expanded with a sections table that
\* has no section of that grade: one row, without a section.
C17_UnmatchedExamKept ==
    /\ pc = "assign"
    /\ sections_df = <<"thani1", "thani2">>
    /\ Len(exams_df) = 1
    /\ exams_df[1].row.grade = "awwal"
    /\ exams_df[1].row.section = ""

-----------------------------------------------------------------------------
(* Rows without a readable date, under SpecUndated.                        *)

\* Whether a row of the working table has a date.
HasDate(r) == IF engine = "logic" THEN r.exam_date # None ELSE r.row.date # None

\* C18: no run fails, and no row whose date could not be read is in the table
\* the assignment loop runs over.
C18_UndatedRowDroppedRunCompletes ==
    /\ pc # "raised"
    /\ pc \in {"loop", "slots", "done"} => \A k \in DOMAIN exams_df : HasDate(exams_df[k])

\* C18 for one engine at a time.
UndatedDroppedInLogic == engine = "logic" => C18_UndatedRowDroppedRunCompletes

UndatedDroppedInV2 == engine = "v2" => C18_UndatedRowDroppedRunCompletes

UndatedDroppedInAuto == engine = "auto" => C18_UndatedRowDroppedRunCompletes

\* assign_supervisors_auto never loops over a row without a date.
AutoRowNeverWithoutDate ==
    (engine = "auto" /\ pc \in {"loop", "done"})
        => \A k \in DOMAIN exams_df : HasDate(exams_df[k])

-----------------------------------------------------------------------------
(* The column checks, under SpecFiles.                                     *)

\* The required columns the exam file lacks.
Lacking == {c \in Range(required_cols) : c \notin exam_columns}

\* C19: validate_exam_file returns False with a message that names exactly the
\* required columns the file lacks; False when the file has neither grade nor
\* level; (True, '') otherwise; an invalid file ends the run; and
\* distribute_invigilators is called only with every required teacher and exam
\* column present.
C19_MissingColumnStopsRun ==
    /\ (engine = "app_v2" /\ pc # "loaded") =>
          /\ Lacking # {} =>
                /\ validation[1] = FALSE
                /\ \A c \in Range(required_cols) :
                       Contains(Chars(c), validation[2]) <=> c \in Lacking
          /\ (Lacking = {} /\ "grade" \notin exam_columns /\ "level" \notin exam_columns) =>
                validation[1] = FALSE
          /\ (Lacking = {} /\ ("grade" \in exam_columns \/ "level" \in exam_columns)) =>
                validation = <<TRUE, <<>>>>
          /\ validation[1] = FALSE => (pc = "returned" /\ shown # <<>>)
    /\ (engine = "logic" /\ pc = "call") =>
          /\ Range(required_teacher_cols) \subseteq teacher_columns
          /\ Range(required_exam_cols) \subseteq exam_columns

\* An exam file without start_time and subject: the message names the two.
C19_TwoColumnsNamed ==
    /\ engine = "app_v2" /\ pc = "returned"
    /\ exam_columns = {"exam_date", "end_time", "grade"}
    /\ validation = <<FALSE, Chars("missing columns: ") \o Chars("start_time") \o Chars(", ")
                                \o Chars("subject")>>

\* distribute_invigilators is called from app.py main.
DistributeCalledFromMain == engine = "logic" /\ pc = "call" /\ selected_level = "L1"

-----------------------------------------------------------------------------
(* The empty teacher table, under Spec.                                    *)

\* With teachers in the table the call never raises, however few are eligible.
UnderStaffingNeverRaises == teachers_df # <<>> => pc # "raised"

\* C20: a call of distribute_invigilators with an empty teacher table does not
\* return a result, and a call with teachers in the table never raises.
C20_EmptyTeacherTableFails ==
    /\ teachers_df = <<>> => pc # "done"
    /\ UnderStaffingNeverRaises

-----------------------------------------------------------------------------
(* Properties of the functions called on their own, under SpecCalls.       *)

\* The number of rows of the list that name the teacher.
RowsNaming(name) == Cardinality({k \in DOMAIN args : args[k].teacher_name = name})

NamesIn == {args[k].teacher_name : k \in DOMAIN args}

\* C21: on a non-empty list get_statistics returns the number of rows as total,
\* for each teacher with a row its number of rows (the counts add up to the
\* total), the largest and the smallest count as max_load and min_load; a call
\* leaves the list as it was and a repeated call returns the same result.
C21_StatisticsCountRows ==
    /\ [](  (fn = "get_statistics" /\ pc = "returned" /\ args # <<>>) =>
              /\ result.total_assignments = Len(args)
              /\ DOMAIN result.teacher_counts = NamesIn
              /\ \A n \in NamesIn : result.teacher_counts[n] = RowsNaming(n)
              /\ SumOver(result.teacher_counts, NamesIn) = result.total_assignments
              /\ \A n \in NamesIn : /\ RowsNaming(n) <= result.max_load
                                    /\ result.min_load <= RowsNaming(n)
              /\ \E n \in NamesIn : RowsNaming(n) = result.max_load
              /\ \E n \in NamesIn : RowsNaming(n) = result.min_load)
    /\ [][fn = "get_statistics" =>
              /\ args' = args
              /\ pc = "returned" => result' = result]_vars

\* The list [A, A, B]: total 3, counts A 2 and B 1, max 2, min 1.
C21_TwoForAOneForB ==
    /\ fn = "get_statistics" /\ pc = "returned"
    /\ [k \in DOMAIN args |-> args[k].teacher_name] = <<"A", "A", "B">>
    /\ result.total_assignments = 3
    /\ result.teacher_counts = [n \in {"A", "B"} |-> IF n = "A" THEN 2 ELSE 1]
    /\ result.max_load = 2
    /\ result.min_load = 1

\* Minutes after midnight of a time.
Minutes(t) == 60 * t[1] + t[2]

\* C22: check_time_conflict(s1, e1, s2, e2) is true exactly when the four times
\* are present, s1 < e2 and s2 < e1; false when one is None; the same with the
\* two intervals exchanged; false when the first ends where the second starts.
C22_ConflictIffOverlap ==
    (fn = "check_time_conflict" /\ pc = "returned") =>
        LET present == \A k \in 1..4 : args[k] # None
        IN  /\ result = (/\ present
                         /\ Minutes(args[1]) < Minutes(args[4])
                         /\ Minutes(args[3]) < Minutes(args[2]))
            /\ ~ present => result = FALSE
            /\ result = CheckTimeConflict(args[3], args[4], args[1], args[2])
            /\ (present /\ args[2] = args[3]) => result = FALSE

\* 08:00-10:00 against 10:00-10:30: no conflict.
C22_TouchingSlotsDoNotConflict ==
    /\ fn = "check_time_conflict" /\ pc = "returned"
    /\ args = <<<<8, 0>>, <<10, 0>>, <<10, 0>>, <<10, 30>>>>
    /\ result = FALSE

\* 08:00-10:00 against 09:00-10:30: a conflict.
OverlappingSlotsConflict ==
    /\ fn = "check_time_conflict" /\ pc = "returned"
    /\ args = <<<<8, 0>>, <<10, 0>>, <<9, 0>>, <<10, 30>>>>
    /\ result = TRUE

\* What strptime(text.strip(), "%H:%M") reads in the texts of TimeCellValues:
\* one or two digits for the hour (0-23) and for the minute (0-59).
TimeRead(text) ==
    CASE text = "08:00" -> <<8, 0>>
      [] text = " 08:00 " -> <<8, 0>>
      [] text = "10:30" -> <<10, 30>>
      [] text = "8:5" -> <<8, 5>>
      [] OTHER -> None

TimeObjectReturned ==
    fn = "parse_time" /\ pc = "returned" /\ args.type = "time" /\ result = <<10, 30>>

-----------------------------------------------------------------------------
(* The per-day counter of assign_supervisors_auto, under SpecAuto.         *)

\* The processed rows dated d that name the teacher as a supervisor.
ProcessedNaming(name, d) ==
    {j \in DOMAIN exams_df :
        j < pos /\ exams_df[j].row.date = d /\ name \in SupervisorsOf(exams_df[j].row)}

\* C23: after each exam row, teacher_assignments[date][teacher] is the number of
\* processed rows of the date that name the teacher as supervisor1 or supervisor2.
C23_CounterCountsEverySupervisor ==
    (engine = "auto" /\ pc \in {"loop", "done"}) =>
        \A t \in DOMAIN teachers_df : \A k \in DOMAIN exams_df :
            k < pos =>
                Get(teacher_assignments, <<exams_df[k].row.date, teachers_df[t].teacher_name>>)
                    = Cardinality(ProcessedNaming(teachers_df[t].teacher_name,
                                                  exams_df[k].row.date))

\* The same for the rows that were given two supervisors.
CounterCountsPairs ==
    (engine = "auto" /\ pc \in {"loop", "done"}) =>
        \A t \in DOMAIN teachers_df : \A k \in DOMAIN exams_df :
            (k < pos /\ \A j \in DOMAIN exams_df :
                            j < pos => Cardinality(SupervisorsOf(exams_df[j].row)) # 1) =>
                Get(teacher_assignments, <<exams_df[k].row.date, teachers_df[t].teacher_name>>)
                    = Cardinality(ProcessedNaming(teachers_df[t].teacher_name,
                                                  exams_df[k].row.date))

-----------------------------------------------------------------------------
(* The order of the teacher rows, under SpecReordered.                     *)

\* C24: with unique teacher names, distribute_invigilators on the teacher table
\* with its rows in another order returns the same assignments and warnings.
C24_RowOrderDoesNotMatter ==
    (engine = "logic" /\ run = 2 /\ pc = "done" /\ UniqueNames(teachers_df)) =>
        /\ assignments = first_result[1]
        /\ warnings_list = first_result[2]

\* The second run had B before A in the table, the two of one specialty and equal
\* load at the first exam; A was given the first row.
C24_TieResolvedByName ==
    /\ engine = "logic" /\ run = 2 /\ pc = "done"
    /\ Len(teachers_df) = 2
    /\ teachers_df[1].teacher_name = "B" /\ teachers_df[2].teacher_name = "A"
    /\ teachers_df[1].specialty = teachers_df[2].specialty
    /\ Len(assignments) >= 2
    /\ assignments[1].teacher_name = "A"
    /\ assignments = first_result[1]

-----------------------------------------------------------------------------
(* Termination of distribute_invigilators, under SpecFair.                 *)

\* Every exam of the level has its K slots in the result: as rows, or as warnings.
EveryExamAccounted ==
    /\ Len(exams_df) = Len(FilterLevel(exams_in, selected_level))
    /\ \A k \in DOMAIN exams_df :
           LET K == exams_df[k].invigilators_needed
               rows == Len(RowsOf(exams_df[k].idx))
               warns == Len(WarningsOf(exams_df[k].idx))
           IN  K >= 1 => /\ rows = K \/ warns >= 1
                         /\ rows + warns = K

\* C25: distribute_invigilators returns, and when it has returned every exam of
\* the level has been processed once: an exam that needs K >= 1 has K rows or at
\* least one warning, also after an exam that was left short.
C25_ReturnsWithEveryExamProcessed ==
    /\ [](pc = "done" => EveryExamAccounted)
    /\ <>(pc = "done")

\* The first exam was left short and the one after it has its rows.
C25_FilledAfterShortExam ==
    /\ engine = "logic" /\ pc = "done"
    /\ Len(exams_df) = 2
    /\ Len(WarningsOf(exams_df[1].idx)) >= 1
    /\ Len(RowsOf(exams_df[2].idx)) = exams_df[2].invigilators_needed

-----------------------------------------------------------------------------
(* The tables of the caller, under SpecAuto, SpecV2 and Spec.              *)

\* C26: no step of an engine changes a table its caller passed: the teacher
\* table; the exam table of distribute_invigilators (exams_in, which the engine
\* copies); the exam table of assign_supervisors_auto and of
\* assign_supervisors_smart_v2 (exams_df, which they take as it is).
C26_CallerTablesUnchanged ==
    [][/\ teachers_df' = teachers_df
       /\ engine = "logic" => exams_in' = exams_in
       /\ (engine \in {"v2", "auto"} /\ pc = "loop") => exams_df' = exams_df]_vars

\* The same for distribute_invigilators alone.
LogicLeavesTablesAlone ==
    [][engine = "logic" => (teachers_df' = teachers_df /\ exams_in' = exams_in)]_vars

-----------------------------------------------------------------------------
(* The runs for two levels, under SpecLevels.                              *)

\* The rows of the run for L1 followed by the rows of the run for L2.
BothLevels == first_result[1] \o assignments

\* C28: the rows of the two runs together never give a teacher two exams of one
\* date whose times overlap, nor more rows on a date than the teacher's max_per_day.
C28_LevelsTogetherWithinLimits ==
    (run = 2 /\ pc = "done") =>
        /\ \A a, b \in DOMAIN BothLevels :
               (/\ a # b
                /\ BothLevels[a].teacher_name = BothLevels[b].teacher_name
                /\ BothLevels[a].exam_date = BothLevels[b].exam_date)
               => ~ (/\ TupleLess(BothLevels[a].start_time, BothLevels[b].end_time)
                     /\ TupleLess(BothLevels[b].start_time, BothLevels[a].end_time))
        /\ \A t \in DOMAIN teachers_df : \A r \in DOMAIN BothLevels :
               Cardinality({k \in DOMAIN BothLevels :
                               /\ BothLevels[k].teacher_name = teachers_df[t].teacher_name
                               /\ BothLevels[k].exam_date = BothLevels[r].exam_date})
                   <= teachers_df[t].max_per_day

\* Each run alone stays within the two limits.
EachLevelWithinLimits == C1_DailyCapacityNeverExceeded /\ C2_NoOverlappingRowsOfATeacher

-----------------------------------------------------------------------------
(* The page of app.py over a session, under SpecSession.                   *)

\* C29: what the page shows for the selected level is the result of
\* distribute_invigilators on the loaded tables: when the user presses the
\* distribute button while a result is shown, the result then computed on the
\* loaded tables is the one that was shown.
C29_ShownIsResultOfLoadedTables ==
    [][(pc = "done" /\ pc' = "page" /\ displayed # None) => displayed' = displayed]_vars

-----------------------------------------------------------------------------
(* The counters assign_supervisors_smart_v2 returns, under SpecV2.         *)

\* The supervisor cells of the table that name t: (position, column) pairs.
CellsNaming(t) ==
    {c \in (DOMAIN exams_df) \X {1, 2} :
        IF c[2] = 1 THEN exams_df[c[1]].row.supervisor1 = t
                    ELSE exams_df[c[1]].row.supervisor2 = t}

\* The rows of one date that name t as supervisor 1 or supervisor 2.
RowsOfDateNaming(t, d) ==
    {k \in DOMAIN exams_df :
        /\ exams_df[k].row.date = d
        /\ t \in {exams_df[k].row.supervisor1, exams_df[k].row.supervisor2}}

TeacherNames == {teachers_df[k].teacher_name : k \in DOMAIN teachers_df}

\* The counter of every teacher is the number of cells naming the teacher.
CountersAgreeWithTable ==
    \A t \in TeacherNames \cup DOMAIN teacher_total_count :
        Get(teacher_total_count, t) = Cardinality(CellsNaming(t))

\* C30: when assign_supervisors_smart_v2 has returned, teacher_total_count of
\* every teacher is the number of supervisor1 and supervisor2 cells of the
\* returned table that name the teacher, and no teacher is named in more than
\* three rows of one date.
C30_CountersAgreeWithReturnedTable ==
    (engine = "v2" /\ pc = "done") =>
        /\ CountersAgreeWithTable
        /\ \A t \in TeacherNames : \A k \in DOMAIN exams_df :
               Cardinality(RowsOfDateNaming(t, exams_df[k].row.date)) <= DailyCap

\* Without a section table no exam row is copied, and the counters do agree.
CountersAgreeWithoutSections ==
    (engine = "v2" /\ pc = "done" /\ sections_df = <<>>) => CountersAgreeWithTable

====
